---- MODULE Spec2Model ----
(***************************************************************************)
(* A model of the Auriga terminal editor in its two variants:              *)
(*   v0.1  src/editor.c                                                    *)
(*   v0.3  the C program listed in src/README.md                           *)
(* Bytes are their ASCII codes.  A line is the memory of a C string: its   *)
(* content bytes followed by the NUL terminator; the bytes behind the      *)
(* terminator are never read by the program and are not kept.  The cached  *)
(* length len[] is kept beside it, as in the Buffer struct.                *)
(***************************************************************************)
EXTENDS Integers, Sequences, FiniteSets, TLC

VARIABLES
    ver,                \* which variant runs: "v01" (editor.c) or "v03" (README.md)
    buf,                \* Buffer: [lines, len, count]
    view,               \* View: [cx, cy, pref_cx], and where the screen is modelled
                        \* also rowoff, coloff, screenrows, screencols
    dirty,              \* static bool dirty
    quit_times_needed,  \* static int quit_times_needed (v0.3)
    statusmsg,          \* which message editor_set_status last formatted
    srch,               \* [last_query, last_match_row, last_match_col]
    hl,                 \* [row, col, len]: hl_row, hl_col, hl_len
    exited,             \* the main loop was left (break)
    branch,             \* the arm of main's if-chain the last iteration took:
                        \* "none" yet, "quit", "bound" (another bound key), "unbound"
    fs,                 \* the two paths of the file system: [target, tmp]
    sv,                 \* the save in progress: position and locals of editor_save(_atomic)
    kb,                 \* the terminal input: [input, stream, keys], what was typed, what
                        \* read() has still to deliver, the keys editor_read_key returned
    tty                 \* the terminal and the process on it: [attrs, orig, size, drawn,
                        \* cursor, tick, proc], see TtyIdle

vars == <<ver, buf, view, dirty, quit_times_needed, statusmsg, srch, hl, exited, branch, fs, sv, kb, tty>>

----------------------------------------------------------------------------
(* Bounds of the model *)

MaxLines == 2       \* lines a buffer may grow to
MaxLen == 2         \* bytes a line may grow to
MaxFileLen == 3     \* bytes of the file given on the command line
MaxQuery == 1       \* bytes of a search query typed at the prompt

(* Bytes and key codes of the program *)

NUL == 0
LF == 10
CR == 13
ESC == 27
DEL == 127
KEY_UP == 1001
KEY_DOWN == 1002
KEY_RIGHT == 1003
KEY_LEFT == 1004
KEY_PAGEUP == 1005
KEY_PAGEDOWN == 1006
KEY_HOME == 72      \* 'H'
KEY_END == 69       \* 'E'

CTRL_KEY(k) == k % 32

isprint(c) == c >= 32 /\ c <= 126

(* The printable bytes typed in the model, and the bytes a file is made of *)
Typed == {97}
FileBytes == {97, LF}

----------------------------------------------------------------------------
(* Helpers on sequences *)

Min(a, b) == IF a <= b THEN a ELSE b

SeqsUpTo(S, n) == UNION {[1..k -> S] : k \in 0..n}

InsertAt(s, i, x) == SubSeq(s, 1, i) \o <<x>> \o SubSeq(s, i + 1, Len(s))

RemoveAt(s, i) == SubSeq(s, 1, i - 1) \o SubSeq(s, i + 1, Len(s))

(* strlen: the number of bytes before the first NUL of a C string *)
RECURSIVE strlen_from(_, _)
strlen_from(mem, i) ==
    IF i > Len(mem) \/ mem[i] = NUL THEN i - 1 ELSE strlen_from(mem, i + 1)

strlen(mem) == strlen_from(mem, 1)

(* n bytes of memory starting at offset off (0-based), as memcpy/memmove read them *)
Bytes(mem, off, n) == SubSeq(mem, off + 1, off + n)

----------------------------------------------------------------------------
(* Line buffer, v0.3 (src/README.md).  The operations take and return the  *)
(* globals they touch: g is [buf, view, dirty, ...].                       *)

buffer_init == [lines |-> << <<NUL>> >>, len |-> <<0>>, count |-> 1]

buffer_insert_line(b, at, s, n) ==
    IF at < 0 \/ at > b.count THEN b
    ELSE [lines |-> InsertAt(SubSeq(b.lines, 1, b.count), at, Bytes(s, 0, n) \o <<NUL>>),
          len   |-> InsertAt(SubSeq(b.len, 1, b.count), at, n),
          count |-> b.count + 1]

(* buffer_append_empty that puts the empty line in front of the last line *)
buffer_append_empty_before(b) == buffer_insert_line(b, b.count - 1, <<NUL>>, 0)

buffer_append_empty(b) == buffer_insert_line(b, b.count, <<NUL>>, 0)

buffer_insert_char(g, row, col, c) ==
    LET b == g.buf
        L == b.len[row + 1]
        k == IF col < 0 THEN 0 ELSE IF col > L THEN L ELSE col
        mem == b.lines[row + 1]
    IN [g EXCEPT !.buf.lines[row + 1] = Bytes(mem, 0, k) \o <<c>> \o Bytes(mem, k, L - k + 1),
                 !.buf.len[row + 1] = L + 1,
                 !.dirty = TRUE]

(* buffer_delete_char that shifts the bytes and forgets b->len[row] = L - 1 *)
buffer_delete_char_keeplen(g, row, col) ==
    LET b == g.buf
        L == b.len[row + 1]
        mem == b.lines[row + 1]
    IN IF col <= 0 \/ col > L THEN g
       ELSE [g EXCEPT !.buf.lines[row + 1] = Bytes(mem, 0, col - 1) \o Bytes(mem, col, L - col + 1),
                      !.dirty = TRUE]

buffer_delete_char(g, row, col) ==
    LET b == g.buf
        L == b.len[row + 1]
        mem == b.lines[row + 1]
    IN IF col <= 0 \/ col > L THEN g
       ELSE [g EXCEPT !.buf.lines[row + 1] = Bytes(mem, 0, col - 1) \o Bytes(mem, col, L - col + 1),
                      !.buf.len[row + 1] = L - 1,
                      !.dirty = TRUE]

(* buffer_split_line that keeps the cached length of the left part *)
buffer_split_line_keeplen(g, row, col) ==
    LET b == g.buf
        L == b.len[row + 1]
        k == IF col < 0 THEN 0 ELSE IF col > L THEN L ELSE col
        mem == b.lines[row + 1]
        right == Bytes(mem, k, L - k + 1)
        b1 == buffer_insert_line(b, row + 1, right, L - k)
    IN [g EXCEPT !.buf = [b1 EXCEPT !.lines[row + 1] = Bytes(mem, 0, k) \o <<NUL>>],
                 !.dirty = TRUE]

buffer_split_line(g, row, col) ==
    LET b == g.buf
        L == b.len[row + 1]
        k == IF col < 0 THEN 0 ELSE IF col > L THEN L ELSE col
        mem == b.lines[row + 1]
        right == Bytes(mem, k, L - k + 1)
        b1 == buffer_insert_line(b, row + 1, right, L - k)
    IN [g EXCEPT !.buf = [b1 EXCEPT !.lines[row + 1] = Bytes(mem, 0, k) \o <<NUL>>,
                                    !.len[row + 1] = k],
                 !.dirty = TRUE]

(* the join with the two lines in the wrong order *)
buffer_join_with_prev_swapped(g, row) ==
    LET b == g.buf
    IN IF row <= 0 \/ row >= b.count THEN g
       ELSE LET Lp == b.len[row]
                Lc == b.len[row + 1]
                joined == Bytes(b.lines[row + 1], 0, Lc) \o Bytes(b.lines[row], 0, Lp + 1)
                lines1 == [b.lines EXCEPT ![row] = joined]
                len1 == [b.len EXCEPT ![row] = Lp + Lc]
            IN [g EXCEPT !.buf = [lines |-> RemoveAt(SubSeq(lines1, 1, b.count), row + 1),
                                  len   |-> RemoveAt(SubSeq(len1, 1, b.count), row + 1),
                                  count |-> b.count - 1],
                         !.dirty = TRUE]

buffer_join_with_prev(g, row) ==
    LET b == g.buf
    IN IF row <= 0 \/ row >= b.count THEN g
       ELSE LET Lp == b.len[row]
                Lc == b.len[row + 1]
                joined == Bytes(b.lines[row], 0, Lp) \o Bytes(b.lines[row + 1], 0, Lc + 1)
                lines1 == [b.lines EXCEPT ![row] = joined]
                len1 == [b.len EXCEPT ![row] = Lp + Lc]
            IN [g EXCEPT !.buf = [lines |-> RemoveAt(SubSeq(lines1, 1, b.count), row + 1),
                                  len   |-> RemoveAt(SubSeq(len1, 1, b.count), row + 1),
                                  count |-> b.count - 1],
                         !.dirty = TRUE]

----------------------------------------------------------------------------
(* Movement and editing, v0.3 (src/README.md) *)

(* the column taken from cx instead of pref_cx *)
PrefCol_cx(g) ==
    LET L == g.buf.len[g.view.cy + 1]
    IN IF g.view.cx <= L THEN g.view.cx ELSE L

PrefCol(g) ==
    LET L == g.buf.len[g.view.cy + 1]
    IN IF g.view.pref_cx <= L THEN g.view.pref_cx ELSE L

(* editor_move_cursor_vert that moves the row and keeps the column as it is *)
editor_move_cursor_vert_noclamp(g, key, screenrows) ==
    LET page == IF screenrows - 2 < 1 THEN 1 ELSE screenrows - 2
    IN [g EXCEPT !.view.cy = IF key = KEY_PAGEUP
                             THEN (IF @ - page < 0 THEN 0 ELSE @ - page)
                             ELSE (IF @ + page >= g.buf.count THEN g.buf.count - 1
                                   ELSE @ + page)]

(* PageUp / PageDown; screenrows is view.screenrows as the last size query left it *)
editor_move_cursor_vert(g, key, screenrows) ==
    LET page == IF screenrows - 2 < 1 THEN 1 ELSE screenrows - 2
        cy1 == IF key = KEY_PAGEUP
               THEN (IF g.view.cy - page < 0 THEN 0 ELSE g.view.cy - page)
               ELSE (IF g.view.cy + page >= g.buf.count THEN g.buf.count - 1
                     ELSE g.view.cy + page)
        g1 == [g EXCEPT !.view.cy = cy1]
    IN [g1 EXCEPT !.view.cx = PrefCol(g1)]

(* Left and Right that stop at the ends of the line *)
editor_move_cursor_nowrap(g, key) ==
    CASE key = KEY_LEFT ->
           IF g.view.cx > 0
           THEN [g EXCEPT !.view.cx = @ - 1, !.view.pref_cx = g.view.cx - 1]
           ELSE g
      [] key = KEY_RIGHT ->
           IF g.view.cx < g.buf.len[g.view.cy + 1]
           THEN [g EXCEPT !.view.cx = @ + 1, !.view.pref_cx = g.view.cx + 1]
           ELSE g
      [] OTHER -> g

editor_move_cursor(g, key) ==
    CASE key = KEY_LEFT ->
           IF g.view.cx > 0
           THEN [g EXCEPT !.view.cx = @ - 1, !.view.pref_cx = g.view.cx - 1]
           ELSE IF g.view.cy > 0
           THEN [g EXCEPT !.view.cy = @ - 1,
                          !.view.cx = g.buf.len[g.view.cy],
                          !.view.pref_cx = g.buf.len[g.view.cy]]
           ELSE g
      [] key = KEY_RIGHT ->
           IF g.view.cy < g.buf.count
           THEN LET L == g.buf.len[g.view.cy + 1]
                IN IF g.view.cx < L
                   THEN [g EXCEPT !.view.cx = @ + 1, !.view.pref_cx = g.view.cx + 1]
                   ELSE IF g.view.cy + 1 < g.buf.count
                   THEN [g EXCEPT !.view.cy = @ + 1, !.view.cx = 0, !.view.pref_cx = 0]
                   ELSE g
           ELSE g
      [] key = KEY_UP ->
           LET g1 == IF g.view.cy > 0 THEN [g EXCEPT !.view.cy = @ - 1] ELSE g
           IN [g1 EXCEPT !.view.cx = PrefCol(g1)]
      [] key = KEY_DOWN ->
           LET g1 == IF g.view.cy + 1 < g.buf.count
                     THEN [g EXCEPT !.view.cy = @ + 1]
                     ELSE [g EXCEPT !.buf = buffer_append_empty(g.buf), !.view.cy = @ + 1]
           IN [g1 EXCEPT !.view.cx = PrefCol(g1)]
      [] key = KEY_HOME -> [g EXCEPT !.view.cx = 0, !.view.pref_cx = 0]
      [] key = KEY_END ->
           [g EXCEPT !.view.cx = g.buf.len[g.view.cy + 1],
                     !.view.pref_cx = g.buf.len[g.view.cy + 1]]
      [] OTHER -> g

NoHighlight == [row |-> -1, col |-> -1, len |-> -1]

(* editor_backspace that leaves the highlight alone *)
editor_backspace_keephl(g) ==
    IF g.view.cx > 0
    THEN LET g1 == buffer_delete_char(g, g.view.cy, g.view.cx)
         IN [g1 EXCEPT !.view.cx = @ - 1, !.view.pref_cx = g1.view.cx - 1]
    ELSE IF g.view.cy > 0
    THEN LET prev_len == g.buf.len[g.view.cy]
             g1 == buffer_join_with_prev(g, g.view.cy)
         IN [g1 EXCEPT !.view.cy = @ - 1, !.view.cx = prev_len,
                       !.view.pref_cx = prev_len]
    ELSE g

(* editor_insert_char that leaves the preferred column alone *)
editor_insert_char_nopref(g, c) ==
    LET g1 == buffer_insert_char(g, g.view.cy, g.view.cx, c)
    IN [g1 EXCEPT !.view.cx = @ + 1, !.hl = NoHighlight]

editor_insert_char(g, c) ==
    LET g1 == buffer_insert_char(g, g.view.cy, g.view.cx, c)
    IN [g1 EXCEPT !.view.cx = @ + 1, !.view.pref_cx = g1.view.cx + 1, !.hl = NoHighlight]

(* editor_insert_newline that leaves the highlight alone *)
editor_insert_newline_keephl(g) ==
    LET g1 == buffer_split_line(g, g.view.cy, g.view.cx)
    IN [g1 EXCEPT !.view.cy = @ + 1, !.view.cx = 0, !.view.pref_cx = 0]

editor_insert_newline(g) ==
    LET g1 == buffer_split_line(g, g.view.cy, g.view.cx)
    IN [g1 EXCEPT !.view.cy = @ + 1, !.view.cx = 0, !.view.pref_cx = 0, !.hl = NoHighlight]

editor_backspace(g) ==
    LET g2 == IF g.view.cx > 0
              THEN LET g1 == buffer_delete_char(g, g.view.cy, g.view.cx)
                   IN [g1 EXCEPT !.view.cx = @ - 1, !.view.pref_cx = g1.view.cx - 1]
              ELSE IF g.view.cy > 0
              THEN LET prev_len == g.buf.len[g.view.cy]
                       g1 == buffer_join_with_prev(g, g.view.cy)
                   IN [g1 EXCEPT !.view.cy = @ - 1, !.view.cx = prev_len,
                                 !.view.pref_cx = prev_len]
              ELSE g
    IN [g2 EXCEPT !.hl = NoHighlight]

----------------------------------------------------------------------------
(* Search, v0.3 (src/README.md) *)

(* strstr(hay + off, q): offset in hay of the first occurrence of q in the C
   string that starts at hay + off, or -1 *)
strstr(hay, off, q) ==
    LET end == strlen_from(hay, off + 1)
        found == {p \in off..(end - Len(q)) : Bytes(hay, p, Len(q)) = q}
    IN IF found = {} THEN -1 ELSE CHOOSE p \in found : \A p2 \in found : p <= p2

(* the inner for loop of editor_find_next: rows r.. with start column c on the
   first of them; <<row, col>> of the first match, or <<-1, -1>> *)
RECURSIVE ScanRows(_, _, _, _)
ScanRows(b, q, r, c) ==
    IF r >= b.count THEN <<-1, -1>>
    ELSE IF b.len[r + 1] = 0 THEN ScanRows(b, q, r + 1, 0)
    ELSE LET p == strstr(b.lines[r + 1], Min(c, b.len[r + 1]), q)
         IN IF p >= 0 THEN <<r, p>> ELSE ScanRows(b, q, r + 1, 0)

(* the first round alone, without the wrap to the top *)
FindMatch_nowrap(g, from_current) ==
    LET r == IF from_current THEN g.view.cy ELSE g.srch.last_match_row
        c == IF from_current THEN g.view.cx ELSE g.srch.last_match_col + 1
    IN ScanRows(g.buf, g.srch.last_query, r, c)

(* the match editor_find_next settles on after its two rounds *)
FindMatch(g, from_current) ==
    LET r == IF from_current THEN g.view.cy ELSE g.srch.last_match_row
        c == IF from_current THEN g.view.cx ELSE g.srch.last_match_col + 1
        m1 == ScanRows(g.buf, g.srch.last_query, r, c)
    IN IF m1[1] >= 0 THEN m1 ELSE ScanRows(g.buf, g.srch.last_query, 0, 0)

(* editor_find_next that leaves the preferred column alone *)
editor_find_next_nopref(g, from_current) ==
    IF g.srch.last_query = <<>> THEN [found |-> FALSE, g |-> g]
    ELSE LET m == FindMatch(g, from_current)
         IN IF m[1] < 0 THEN [found |-> FALSE, g |-> g]
            ELSE [found |-> TRUE,
                  g |-> [g EXCEPT !.srch.last_match_row = m[1],
                                  !.srch.last_match_col = m[2],
                                  !.hl = [row |-> m[1], col |-> m[2],
                                          len |-> Len(g.srch.last_query)],
                                  !.view.cy = m[1],
                                  !.view.cx = m[2]]]

(* [found, g]: the return value and the globals afterwards *)
editor_find_next(g, from_current) ==
    IF g.srch.last_query = <<>> THEN [found |-> FALSE, g |-> g]
    ELSE LET m == FindMatch(g, from_current)
         IN IF m[1] < 0 THEN [found |-> FALSE, g |-> g]
            ELSE [found |-> TRUE,
                  g |-> [g EXCEPT !.srch.last_match_row = m[1],
                                  !.srch.last_match_col = m[2],
                                  !.hl = [row |-> m[1], col |-> m[2],
                                          len |-> Len(g.srch.last_query)],
                                  !.view.cy = m[1],
                                  !.view.cx = m[2],
                                  !.view.pref_cx = m[2]]]

(* editor_find that seeds last_match_col two columns left of the cursor *)
editor_find_seed2(g, canceled, query) ==
    IF canceled THEN [g EXCEPT !.statusmsg = "Canceled", !.hl = NoHighlight]
    ELSE LET g1 == [g EXCEPT !.statusmsg = "",
                             !.srch = [last_query |-> query,
                                       last_match_row |-> g.view.cy,
                                       last_match_col |-> g.view.cx - 2]]
             res == editor_find_next(g1, TRUE)
         IN IF res.found THEN [res.g EXCEPT !.statusmsg = "Found"]
            ELSE [res.g EXCEPT !.statusmsg = "Not found", !.hl = NoHighlight]

(* editor_find with the outcome of editor_prompt: canceled, or the query typed *)
editor_find(g, canceled, query) ==
    IF canceled THEN [g EXCEPT !.statusmsg = "Canceled", !.hl = NoHighlight]
    ELSE LET g1 == [g EXCEPT !.statusmsg = "",
                             !.srch = [last_query |-> query,
                                       last_match_row |-> g.view.cy,
                                       last_match_col |-> g.view.cx - 1]]
             res == editor_find_next(g1, TRUE)
         IN IF res.found THEN [res.g EXCEPT !.statusmsg = "Found"]
            ELSE [res.g EXCEPT !.statusmsg = "Not found", !.hl = NoHighlight]

----------------------------------------------------------------------------
(* Line buffer, movement and editing, v0.1 (src/editor.c) *)

buffer_insert_char_v1(g, row, col, c) ==
    IF row < 0 \/ row >= g.buf.count THEN g ELSE buffer_insert_char(g, row, col, c)

buffer_delete_char_v1(g, row, col) ==
    IF row < 0 \/ row >= g.buf.count THEN g ELSE buffer_delete_char(g, row, col)

buffer_split_line_v1(g, row, col) ==
    IF row < 0 \/ row >= g.buf.count THEN g ELSE buffer_split_line(g, row, col)

buffer_join_with_prev_v1(g, row) == buffer_join_with_prev(g, row)

ClampCx(g) ==
    IF g.view.cx > g.buf.len[g.view.cy + 1]
    THEN [g EXCEPT !.view.cx = g.buf.len[g.view.cy + 1]] ELSE g

move_cursor(g, key) ==
    CASE key = KEY_LEFT ->
           IF g.view.cx > 0 THEN [g EXCEPT !.view.cx = @ - 1]
           ELSE IF g.view.cy > 0
           THEN [g EXCEPT !.view.cy = @ - 1, !.view.cx = g.buf.len[g.view.cy]]
           ELSE g
      [] key = KEY_RIGHT ->
           IF g.view.cy < g.buf.count
           THEN IF g.view.cx < g.buf.len[g.view.cy + 1] THEN [g EXCEPT !.view.cx = @ + 1]
                ELSE IF g.view.cy + 1 < g.buf.count
                THEN [g EXCEPT !.view.cy = @ + 1, !.view.cx = 0]
                ELSE g
           ELSE g
      [] key = KEY_UP ->
           ClampCx(IF g.view.cy > 0 THEN [g EXCEPT !.view.cy = @ - 1] ELSE g)
      [] key = KEY_DOWN ->
           ClampCx(IF g.view.cy + 1 < g.buf.count THEN [g EXCEPT !.view.cy = @ + 1] ELSE g)
      [] key = KEY_HOME -> [g EXCEPT !.view.cx = 0]
      [] key = KEY_END -> [g EXCEPT !.view.cx = g.buf.len[g.view.cy + 1]]
      [] OTHER -> g

insert_char(g, c) ==
    LET g1 == buffer_insert_char_v1(g, g.view.cy, g.view.cx, c)
    IN [g1 EXCEPT !.view.cx = @ + 1]

insert_newline(g) ==
    LET g1 == buffer_split_line_v1(g, g.view.cy, g.view.cx)
    IN [g1 EXCEPT !.view.cy = @ + 1, !.view.cx = 0]

backspace_op(g) ==
    IF g.view.cx > 0
    THEN LET g1 == buffer_delete_char_v1(g, g.view.cy, g.view.cx)
         IN [g1 EXCEPT !.view.cx = @ - 1]
    ELSE IF g.view.cy > 0
    THEN LET prev_len == g.buf.len[g.view.cy]
             g1 == buffer_join_with_prev_v1(g, g.view.cy)
         IN [g1 EXCEPT !.view.cy = @ - 1, !.view.cx = prev_len]
    ELSE g

----------------------------------------------------------------------------
(* Load.  A file is [exists, data]; data is its bytes. *)

NoFile == [exists |-> FALSE, data |-> <<>>]

File(data) == [exists |-> TRUE, data |-> data]

(* what successive getline calls return: the lines with their LF, the last one
   possibly without *)
RECURSIVE GetLines(_, _)
GetLines(data, cur) ==
    IF data = <<>> THEN (IF cur = <<>> THEN <<>> ELSE <<cur>>)
    ELSE IF Head(data) = LF THEN <<Append(cur, LF)>> \o GetLines(Tail(data), <<>>)
    ELSE GetLines(Tail(data), Append(cur, Head(data)))

(* the n left after the loop that strips trailing LF and CR *)
RECURSIVE Stripped(_, _)
Stripped(line, n) ==
    IF n > 0 /\ (line[n] = LF \/ line[n] = CR) THEN Stripped(line, n - 1) ELSE n

RECURSIVE LoadLines(_, _, _)
LoadLines(b, raw, first) ==
    IF raw = <<>> THEN b
    ELSE LET line == Head(raw)
             n == Stripped(line, Len(line))
             b1 == IF first
                   THEN [b EXCEPT !.lines[1] = Bytes(line, 0, n) \o <<NUL>>, !.len[1] = n]
                   ELSE buffer_insert_line(b, b.count, line, n)
         IN LoadLines(b1, Tail(raw), FALSE)

editor_open(g, f) ==
    IF ~f.exists THEN g
    ELSE [g EXCEPT !.buf = LoadLines(buffer_init, GetLines(f.data, <<>>), TRUE),
                   !.dirty = FALSE]

editor_open_v1(g, f) == editor_open(g, f)

----------------------------------------------------------------------------
(* The main loops.  One iteration reads one key c and dispatches it; what   *)
(* the iteration reads from outside the editor comes in as inputs:          *)
(*   save_ok     the return value of editor_save / editor_save_atomic       *)
(*   canceled, query   the outcome of editor_prompt                         *)
(*   screenrows  view.screenrows, as the size query of the previous         *)
(*               iteration left it                                          *)
(* The file-system steps of a save are modelled one by one in SpecSave.     *)

CTRL_Q == CTRL_KEY(113)
CTRL_S == CTRL_KEY(115)
CTRL_F == CTRL_KEY(102)
CTRL_N == CTRL_KEY(110)

MotionKeys == {KEY_UP, KEY_DOWN, KEY_RIGHT, KEY_LEFT, KEY_HOME, KEY_END}

(* what a save that returned save_ok did to the globals *)
save_returned(g, save_ok) == IF save_ok THEN [g EXCEPT !.dirty = FALSE] ELSE g

(* a Ctrl-Q arm that leaves at the first press, as the v0.1 loop does *)
main_ctrl_q_once(g) == [g EXCEPT !.exited = TRUE]

(* a Ctrl-Q arm that looks at dirty alone and counts down all the same *)
main_ctrl_q_dirtyonly(g) ==
    IF g.dirty
    THEN [g EXCEPT !.statusmsg = "Unsaved changes", !.quit_times_needed = @ - 1]
    ELSE [g EXCEPT !.exited = TRUE]

(* the Ctrl-Q arm of the v0.3 loop *)
main_ctrl_q(g) ==
    IF g.dirty /\ g.quit_times_needed > 0
    THEN [g EXCEPT !.statusmsg = "Unsaved changes", !.quit_times_needed = @ - 1]
    ELSE [g EXCEPT !.exited = TRUE]

(* a Ctrl-S arm that forgets quit_times_needed = 1 *)
main_ctrl_s_noreset(g, save_ok) ==
    [save_returned(g, save_ok) EXCEPT
        !.statusmsg = IF save_ok THEN "Saved" ELSE "Save failed"]

(* the Ctrl-S arm of the v0.3 loop, for a save that returned save_ok *)
main_ctrl_s(g, save_ok) ==
    [save_returned(g, save_ok) EXCEPT
        !.statusmsg = IF save_ok THEN "Saved" ELSE "Save failed",
        !.quit_times_needed = 1]

main_v03(g0, c, save_ok, canceled, query, screenrows) ==
    LET g == [g0 EXCEPT !.branch = IF c = CTRL_Q THEN "quit" ELSE "bound"]
    IN
    IF c = CTRL_Q THEN main_ctrl_q(g)
    ELSE IF c = CTRL_S THEN main_ctrl_s(g, save_ok)
    ELSE IF c = CTRL_F THEN
        [editor_find(g, canceled, query) EXCEPT !.quit_times_needed = 1]
    ELSE IF c = CTRL_N THEN
        LET res == editor_find_next(g, FALSE)
        IN [res.g EXCEPT !.statusmsg = IF res.found THEN @ ELSE "No more matches",
                         !.quit_times_needed = 1]
    ELSE IF c = KEY_PAGEUP \/ c = KEY_PAGEDOWN THEN
        [editor_move_cursor_vert(g, c, screenrows) EXCEPT
            !.quit_times_needed = 1, !.hl = NoHighlight]
    ELSE IF c \in MotionKeys THEN
        [editor_move_cursor(g, c) EXCEPT !.quit_times_needed = 1, !.hl = NoHighlight]
    ELSE IF c = CR \/ c = LF THEN
        [editor_insert_newline(g) EXCEPT !.quit_times_needed = 1]
    ELSE IF c = DEL THEN
        [editor_backspace(g) EXCEPT !.quit_times_needed = 1]
    ELSE IF isprint(c) THEN
        [editor_insert_char(g, c) EXCEPT !.quit_times_needed = 1]
    ELSE [g EXCEPT !.branch = "unbound"]

main_v01(g0, c, save_ok) ==
    LET g == [g0 EXCEPT !.branch = IF c = CTRL_Q THEN "quit" ELSE "bound"]
    IN
    IF c = 0 THEN [g EXCEPT !.branch = "unbound"]
    ELSE IF c = CTRL_Q THEN [g EXCEPT !.exited = TRUE]
    ELSE IF c = CTRL_S THEN
        [save_returned(g, save_ok) EXCEPT
            !.statusmsg = IF save_ok THEN "Saved" ELSE "Save failed"]
    ELSE IF c \in MotionKeys THEN move_cursor(g, c)
    ELSE IF c = CR \/ c = LF THEN insert_newline(g)
    ELSE IF c = DEL THEN backspace_op(g)
    ELSE IF isprint(c) THEN insert_char(g, c)
    ELSE [g EXCEPT !.branch = "unbound"]

----------------------------------------------------------------------------
(* State machine of the dispatcher *)

G == [buf |-> buf, view |-> view, dirty |-> dirty,
      quit_times_needed |-> quit_times_needed, statusmsg |-> statusmsg,
      srch |-> srch, hl |-> hl, exited |-> exited, branch |-> branch]

Commit(g) ==
    /\ buf' = g.buf
    /\ view' = g.view
    /\ dirty' = g.dirty
    /\ quit_times_needed' = g.quit_times_needed
    /\ statusmsg' = g.statusmsg
    /\ srch' = g.srch
    /\ hl' = g.hl
    /\ exited' = g.exited
    /\ branch' = g.branch

InBounds(b) == b.count <= MaxLines /\ \A i \in 1..b.count : b.len[i] <= MaxLen

(* the globals as main() has them before it opens the file *)
Globals0 ==
         [buf |-> buffer_init,
          view |-> [cx |-> 0, cy |-> 0, pref_cx |-> 0],
          dirty |-> FALSE,
          quit_times_needed |-> 1,
          statusmsg |-> "HELP",
          srch |-> [last_query |-> <<>>, last_match_row |-> -1, last_match_col |-> -1],
          hl |-> [row |-> -1, col |-> -1, len |-> 0],
          exited |-> FALSE,
          branch |-> "none"]

(* the globals as main() of variant v has them when the loop starts, for the file f *)
Startup(v, f) ==
    IF v = "v01" THEN editor_open_v1(Globals0, f) ELSE editor_open(Globals0, f)

Files == {NoFile} \cup {File(d) : d \in SeqsUpTo(FileBytes, MaxFileLen)}

Queries == SeqsUpTo(Typed, MaxQuery) \ {<<>>}

ScreenRows == {1, 4}

SvIdle == [pc |-> "idle"]

KbIdle == [input |-> <<>>, stream |-> <<>>, keys |-> <<>>]

(* the terminal, in raw mode since enable_raw_mode, and the process on it:
     attrs   the attributes in force, orig those the terminal had at start-up
             (orig_termios);
     size    <<rows, cols>> of the window, as TIOCGWINSZ reports it;
     drawn   <<screenrows, screencols>> the screen was last drawn for;
     cursor  <<row, col>> of the last cursor move written to the terminal;
     tick    parity of the reads that timed out (VMIN = 0, VTIME = 1);
     proc    "start" before the first draw, "loop" in the main loop, "exit"
             after exit() or the return of main, "_exit" after _exit().
   This value stands where the terminal is not looked at. *)
TtyIdle ==
    [attrs |-> "raw", orig |-> "cooked", size |-> <<24, 80>>, drawn |-> <<0, 0>>,
     cursor |-> <<0, 0>>, tick |-> 0, proc |-> "loop"]

Init ==
    /\ ver \in {"v01", "v03"}
    /\ \E f \in Files :
          LET g == Startup(ver, f)
          IN /\ InBounds(g.buf)
             /\ buf = g.buf /\ view = g.view /\ dirty = g.dirty
             /\ quit_times_needed = g.quit_times_needed /\ statusmsg = g.statusmsg
             /\ srch = g.srch /\ hl = g.hl /\ exited = g.exited /\ branch = g.branch
    /\ fs = [target |-> NoFile, tmp |-> NoFile]
    /\ sv = SvIdle
    /\ tty = TtyIdle
    /\ kb = KbIdle

(* one iteration of the v0.3 loop on key c *)
Key3(c, save_ok, canceled, query, screenrows) ==
    /\ ver = "v03" /\ ~exited /\ sv.pc = "idle"
    /\ LET g == main_v03(G, c, save_ok, canceled, query, screenrows)
       IN InBounds(g.buf) /\ Commit(g)
    /\ UNCHANGED <<ver, fs, sv, kb, tty>>

(* one iteration of the v0.1 loop on key c *)
Key1(c, save_ok) ==
    /\ ver = "v01" /\ ~exited /\ sv.pc = "idle"
    /\ LET g == main_v01(G, c, save_ok)
       IN InBounds(g.buf) /\ Commit(g)
    /\ UNCHANGED <<ver, fs, sv, kb, tty>>

Unbound == {ESC, 9, 1}

V3CtrlQ == Key3(CTRL_Q, FALSE, FALSE, <<>>, 4)
V3CtrlS == \E ok \in BOOLEAN : Key3(CTRL_S, ok, FALSE, <<>>, 4)
V3CtrlF == \/ Key3(CTRL_F, FALSE, TRUE, <<>>, 4)
           \/ \E q \in Queries : Key3(CTRL_F, FALSE, FALSE, q, 4)
V3CtrlN == Key3(CTRL_N, FALSE, FALSE, <<>>, 4)
V3Page == \E c \in {KEY_PAGEUP, KEY_PAGEDOWN}, rows \in ScreenRows :
             Key3(c, FALSE, FALSE, <<>>, rows)
V3Move == \E c \in MotionKeys : Key3(c, FALSE, FALSE, <<>>, 4)
V3Enter == \E c \in {CR, LF} : Key3(c, FALSE, FALSE, <<>>, 4)
V3Backspace == Key3(DEL, FALSE, FALSE, <<>>, 4)
V3Printable == \E c \in Typed : Key3(c, FALSE, FALSE, <<>>, 4)
V3Unbound == \E c \in Unbound : Key3(c, FALSE, FALSE, <<>>, 4)

V1Zero == Key1(0, FALSE)
V1CtrlQ == Key1(CTRL_Q, FALSE)
V1CtrlS == \E ok \in BOOLEAN : Key1(CTRL_S, ok)
V1Move == \E c \in MotionKeys : Key1(c, FALSE)
V1Enter == \E c \in {CR, LF} : Key1(c, FALSE)
V1Backspace == Key1(DEL, FALSE)
V1Printable == \E c \in Typed : Key1(c, FALSE)
V1Other == \E c \in Unbound \cup {KEY_PAGEUP, KEY_PAGEDOWN, CTRL_F, CTRL_N} : Key1(c, FALSE)

Next ==
    \/ V3CtrlQ \/ V3CtrlS \/ V3CtrlF \/ V3CtrlN \/ V3Page \/ V3Move
    \/ V3Enter \/ V3Backspace \/ V3Printable \/ V3Unbound
    \/ V1Zero \/ V1CtrlQ \/ V1CtrlS \/ V1Move \/ V1Enter \/ V1Backspace
    \/ V1Printable \/ V1Other

Spec == Init /\ [][Next]_vars

----------------------------------------------------------------------------
(* Save, step by step: editor_save_atomic of v0.3 (src/README.md) and       *)
(* editor_save of v0.1 (src/editor.c), from the Ctrl-S that starts it to    *)
(* the status message main sets afterwards.  Every system call may fail; a  *)
(* write may transfer fewer bytes than asked; the process may stop between  *)
(* any two steps.  sv holds the position (pc), the locals i and ok, the     *)
(* return value ret, and for the properties: g0 and before (the globals and *)
(* the target file when the save began) and fails (the calls that failed).  *)

(* the lines a buffer of at most MaxLines lines of at most MaxLen typed bytes can hold *)
LineMems == {l \o <<NUL>> : l \in SeqsUpTo(Typed, MaxLen)}

Buffers ==
    {[lines |-> ls, len |-> [i \in 1..Len(ls) |-> Len(ls[i]) - 1], count |-> Len(ls)] :
        ls \in SeqsUpTo(LineMems, MaxLines) \ {<<>>}}

OldData == <<98, LF>>      \* what the target file holds before the save, when it exists
StaleData == <<98>>        \* what a <name>.tmp left behind by an earlier run holds

InitSave ==
    /\ ver \in {"v01", "v03"}
    /\ buf \in Buffers
    /\ view = [cx |-> 0, cy |-> 0, pref_cx |-> 0]
    /\ dirty \in BOOLEAN
    /\ quit_times_needed \in (IF dirty /\ ver = "v03" THEN {0, 1} ELSE {1})
    /\ statusmsg = "HELP"
    /\ srch = [last_query |-> <<>>, last_match_row |-> -1, last_match_col |-> -1]
    /\ hl = [row |-> -1, col |-> -1, len |-> 0]
    /\ exited = FALSE
    /\ branch = "none"
    /\ fs \in [target : {NoFile, File(OldData)}, tmp : {NoFile, File(StaleData)}]
    /\ sv = SvIdle
    /\ tty = TtyIdle
    /\ kb = KbIdle

SaveVars == <<ver, buf, view, srch, hl, exited, kb, tty>>

Failed(call) == [sv EXCEPT !.fails = @ \cup {call}]

(* what write(fd, p, n) may return when it does not fail *)
Written(n) == IF n = 0 THEN {0} ELSE 1..n

AppendTo(f, bytes) == [f EXCEPT !.data = @ \o bytes]

(* main reads Ctrl-S and calls the save function *)
BeginSave ==
    /\ sv.pc = "idle" /\ ~exited
    /\ sv' = [pc |-> "open", i |-> 0, ok |-> TRUE, ret |-> FALSE,
              g0 |-> G, before |-> fs.target, fails |-> {}]
    /\ branch' = "bound"
    /\ UNCHANGED <<SaveVars, dirty, quit_times_needed, statusmsg, fs>>

(* v0.3: fd = open(tmpname, O_WRONLY | O_CREAT | O_TRUNC, 0644) *)
Sv3Open ==
    /\ ver = "v03" /\ sv.pc = "open"
    /\ \/ /\ fs' = [fs EXCEPT !.tmp = File(<<>>)]
          /\ sv' = [sv EXCEPT !.pc = "write_line"]
       \/ /\ sv' = [Failed("open") EXCEPT !.pc = "return", !.ret = FALSE]
          /\ UNCHANGED fs
    /\ UNCHANGED <<SaveVars, dirty, quit_times_needed, statusmsg, branch>>

(* v0.3: write(fd, buf.lines[i], buf.len[i]) == -1 *)
Sv3WriteLine ==
    /\ ver = "v03" /\ sv.pc = "write_line"
    /\ \/ \E k \in Written(buf.len[sv.i + 1]) :
             /\ fs' = [fs EXCEPT !.tmp = AppendTo(@, Bytes(buf.lines[sv.i + 1], 0, k))]
             /\ sv' = [sv EXCEPT !.pc = "write_nl"]
       \/ /\ sv' = [Failed("write") EXCEPT !.ok = FALSE, !.pc = "close"]
          /\ UNCHANGED fs
    /\ UNCHANGED <<SaveVars, dirty, quit_times_needed, statusmsg, branch>>

(* v0.3: write(fd, "\n", 1) == -1, and the loop's i++ and test *)
Sv3WriteNl ==
    /\ ver = "v03" /\ sv.pc = "write_nl"
    /\ \/ /\ fs' = [fs EXCEPT !.tmp = AppendTo(@, <<LF>>)]
          /\ sv' = [sv EXCEPT !.i = @ + 1,
                              !.pc = IF sv.i + 1 < buf.count THEN "write_line" ELSE "fsync"]
       \/ /\ sv' = [Failed("write") EXCEPT !.ok = FALSE, !.pc = "close"]
          /\ UNCHANGED fs
    /\ UNCHANGED <<SaveVars, dirty, quit_times_needed, statusmsg, branch>>

(* v0.3: if (ok && fsync(fd) == -1) ok = false *)
Sv3Fsync ==
    /\ ver = "v03" /\ sv.pc = "fsync"
    /\ \/ sv' = [sv EXCEPT !.pc = "close"]
       \/ sv' = [Failed("fsync") EXCEPT !.ok = FALSE, !.pc = "close"]
    /\ UNCHANGED <<SaveVars, dirty, quit_times_needed, statusmsg, branch, fs>>

(* v0.3: if (close(fd) == -1) ok = false; then the test of ok *)
Sv3Close ==
    /\ ver = "v03" /\ sv.pc = "close"
    /\ \/ sv' = [sv EXCEPT !.pc = IF sv.ok THEN "rename" ELSE "unlink"]
       \/ sv' = [Failed("close") EXCEPT !.ok = FALSE, !.pc = "unlink"]
    /\ UNCHANGED <<SaveVars, dirty, quit_times_needed, statusmsg, branch, fs>>

(* v0.3: unlink(tmpname); return false *)
Sv3Unlink ==
    /\ ver = "v03" /\ sv.pc = "unlink"
    /\ \/ /\ fs' = [fs EXCEPT !.tmp = NoFile]
          /\ sv' = [sv EXCEPT !.pc = "return", !.ret = FALSE]
       \/ /\ sv' = [Failed("unlink") EXCEPT !.pc = "return", !.ret = FALSE]
          /\ UNCHANGED fs
    /\ UNCHANGED <<SaveVars, dirty, quit_times_needed, statusmsg, branch>>

(* v0.3: rename(tmpname, filename); on success dirty = false; return true *)
Sv3Rename ==
    /\ ver = "v03" /\ sv.pc = "rename"
    /\ \/ /\ fs' = [target |-> fs.tmp, tmp |-> NoFile]
          /\ dirty' = FALSE
          /\ sv' = [sv EXCEPT !.pc = "return", !.ret = TRUE]
       \/ /\ sv' = [Failed("rename") EXCEPT !.pc = "unlink"]
          /\ UNCHANGED <<fs, dirty>>
    /\ UNCHANGED <<SaveVars, quit_times_needed, statusmsg, branch>>

(* v0.3: back in main, the rest of the Ctrl-S arm *)
Sv3Return ==
    /\ ver = "v03" /\ sv.pc = "return"
    /\ Commit(main_ctrl_s(G, sv.ret))
    /\ sv' = [sv EXCEPT !.pc = "done"]
    /\ UNCHANGED <<ver, fs, kb, tty>>

(* v0.1: fd = open(filename, O_WRONLY | O_CREAT | O_TRUNC, 0644) *)
Sv1Open ==
    /\ ver = "v01" /\ sv.pc = "open"
    /\ \/ /\ fs' = [fs EXCEPT !.target = File(<<>>)]
          /\ sv' = [sv EXCEPT !.pc = "write_line"]
       \/ /\ sv' = [Failed("open") EXCEPT !.pc = "return", !.ret = FALSE]
          /\ UNCHANGED fs
    /\ UNCHANGED <<SaveVars, dirty, quit_times_needed, statusmsg, branch>>

(* v0.1: write(fd, buf.lines[i], buf.len[i]) == -1 *)
Sv1WriteLine ==
    /\ ver = "v01" /\ sv.pc = "write_line"
    /\ \/ \E k \in Written(buf.len[sv.i + 1]) :
             /\ fs' = [fs EXCEPT !.target = AppendTo(@, Bytes(buf.lines[sv.i + 1], 0, k))]
             /\ sv' = [sv EXCEPT !.pc = "write_nl"]
       \/ /\ sv' = [Failed("write") EXCEPT !.pc = "return", !.ret = FALSE]
          /\ UNCHANGED fs
    /\ UNCHANGED <<SaveVars, dirty, quit_times_needed, statusmsg, branch>>

(* v0.1: write(fd, "\n", 1) == -1, and the loop's i++ and test *)
Sv1WriteNl ==
    /\ ver = "v01" /\ sv.pc = "write_nl"
    /\ \/ /\ fs' = [fs EXCEPT !.target = AppendTo(@, <<LF>>)]
          /\ sv' = [sv EXCEPT !.i = @ + 1,
                              !.pc = IF sv.i + 1 < buf.count THEN "write_line" ELSE "close"]
       \/ /\ sv' = [Failed("write") EXCEPT !.pc = "return", !.ret = FALSE]
          /\ UNCHANGED fs
    /\ UNCHANGED <<SaveVars, dirty, quit_times_needed, statusmsg, branch>>

(* v0.1: close(fd); dirty = false; return true *)
Sv1Close ==
    /\ ver = "v01" /\ sv.pc = "close"
    /\ dirty' = FALSE
    /\ sv' = [sv EXCEPT !.pc = "return", !.ret = TRUE]
    /\ UNCHANGED <<SaveVars, quit_times_needed, statusmsg, branch, fs>>

(* v0.1: back in main, the rest of the Ctrl-S arm *)
Sv1Return ==
    /\ ver = "v01" /\ sv.pc = "return"
    /\ Commit(main_v01(G, CTRL_S, sv.ret))
    /\ sv' = [sv EXCEPT !.pc = "done"]
    /\ UNCHANGED <<ver, fs, kb, tty>>

(* the process stops in the middle of the save *)
Crash ==
    /\ sv.pc \notin {"idle", "done", "crashed"}
    /\ sv' = [sv EXCEPT !.pc = "crashed"]
    /\ UNCHANGED <<SaveVars, dirty, quit_times_needed, statusmsg, branch, fs>>

NextSave ==
    \/ BeginSave
    \/ Sv3Open \/ Sv3WriteLine \/ Sv3WriteNl \/ Sv3Fsync \/ Sv3Close
    \/ Sv3Unlink \/ Sv3Rename \/ Sv3Return
    \/ Sv1Open \/ Sv1WriteLine \/ Sv1WriteNl \/ Sv1Close \/ Sv1Return
    \/ Crash

SpecSave == InitSave /\ [][NextSave]_vars

----------------------------------------------------------------------------
(* Properties of the dispatcher *)

(* C1: in both variants, after any sequence of dispatched keys the cursor is
   on a line of the buffer and at a column of that line or just behind its
   last byte: 0 <= cy < count and 0 <= cx <= len[cy]. *)
C1_CursorInvariant ==
    /\ 0 <= view.cy
    /\ view.cy < buf.count
    /\ 0 <= view.cx
    /\ view.cx <= buf.len[view.cy + 1]

(* a search hit has moved the cursor to column 1 of the last of several lines *)
C1_Witness ==
    /\ ver = "v03"
    /\ hl.len > 0
    /\ view.cy > 0 /\ view.cy = buf.count - 1
    /\ view.cx > 0

(* C2: in both variants the buffer always holds at least one line, and every
   cached length len[i] is the number of bytes before the terminator of
   line i. *)
C2_BufferInvariant ==
    /\ buf.count >= 1
    /\ Len(buf.lines) = buf.count
    /\ Len(buf.len) = buf.count
    /\ \A i \in 1..buf.count :
          /\ Len(buf.lines[i]) > buf.len[i]
          /\ strlen(buf.lines[i]) = buf.len[i]

(* v0.1 after edits: two lines of one byte each *)
C2_Witness ==
    /\ ver = "v01"
    /\ dirty
    /\ buf.count = 2
    /\ buf.len = <<1, 1>>

(* C3: in v0.3 every dispatched key that changes the number of lines or the
   bytes of a line leaves dirty = TRUE. *)
C3_MutationSetsDirty ==
    [][(ver = "v03" /\ (buf.count' # buf.count \/ buf.lines' # buf.lines)) => dirty']_vars

(* C8: in v0.3 a Ctrl-Q with unsaved changes and the counter at 1 is refused:
   the loop goes on, the counter drops to 0 and the warning is set; the
   Ctrl-Q right after a refused one leaves the loop; and a Ctrl-Q on a clean
   buffer leaves the loop at once. *)
C8_QuitConfirmation ==
    [][(ver = "v03" /\ ~exited /\ branch' = "quit") =>
          /\ (dirty /\ quit_times_needed = 1) =>
                /\ ~exited'
                /\ quit_times_needed' = 0
                /\ statusmsg' = "Unsaved changes"
                /\ dirty'
          /\ (branch = "quit") => exited'
          /\ (~dirty) => exited']_vars

(* the second of two Ctrl-Q in a row has left the loop with unsaved changes *)
C8_Witness ==
    /\ ver = "v03"
    /\ exited /\ dirty
    /\ quit_times_needed = 0
    /\ statusmsg = "Unsaved changes"

(* C9 as stated: in v0.3, after any key other than Ctrl-Q, with or without a
   binding, quit_times_needed = 1. *)
C9_AnyKeyResets ==
    (ver = "v03" /\ branch \in {"bound", "unbound"}) => quit_times_needed = 1

(* C9 as amended: in v0.3, after any bound key other than Ctrl-Q,
   quit_times_needed = 1 (a key without a binding leaves the counter as it
   is). *)
C9_BoundKeyResets ==
    (ver = "v03" /\ branch = "bound") => quit_times_needed = 1

(* a bound key after a refused Ctrl-Q: the warning is still the last message
   and the counter is back at 1 *)
C9_Witness ==
    /\ ver = "v03"
    /\ branch = "bound"
    /\ dirty
    /\ statusmsg = "Unsaved changes"
    /\ quit_times_needed = 1

(* C10: in v0.1 a first Ctrl-Q with unsaved changes does not leave the loop. *)
C10_TwoPressesV01 ==
    [][(ver = "v01" /\ dirty /\ branch # "quit" /\ branch' = "quit") => ~exited']_vars

----------------------------------------------------------------------------
(* Properties of the save *)

(* the file the save is to produce: every line followed by one LF *)
RECURSIVE SerializeFrom(_, _)
SerializeFrom(b, i) ==
    IF i > b.count THEN <<>>
    ELSE Bytes(b.lines[i], 0, b.len[i]) \o <<LF>> \o SerializeFrom(b, i + 1)

Serialized(b) == File(SerializeFrom(b, 1))

SaveSteps == {"open", "write", "fsync", "close", "rename"}

(* C4: in v0.3, when the process stops during a save, the target file holds
   what it held before the save began (or is still absent), or the complete
   serialisation of the buffer. *)
C4_CrashAtomic ==
    (ver = "v03" /\ sv.pc = "crashed") => fs.target \in {sv.before, Serialized(buf)}

(* C5: in v0.3, a save in which exactly one of open, write, fsync, close and
   rename failed returns failure, leaves the target file, the dirty flag, the
   buffer and the cursor as they were, leaves no <name>.tmp, and sets the
   'Save failed' message. *)
C5_SaveFailure ==
    (ver = "v03" /\ sv.pc = "done" /\ Cardinality(sv.fails) = 1 /\ sv.fails \subseteq SaveSteps) =>
        /\ ~sv.ret
        /\ fs.target = sv.before
        /\ dirty = sv.g0.dirty
        /\ ~fs.tmp.exists
        /\ buf = sv.g0.buf
        /\ view = sv.g0.view
        /\ statusmsg = "Save failed"

(* C6: in v0.3, when the save returned true, whatever the writes returned
   short of -1, the target file is the serialisation of the buffer, no call
   had failed before the rename, and dirty = FALSE. *)
C6_SaveSuccess ==
    (ver = "v03" /\ sv.pc = "done" /\ sv.ret) =>
        /\ fs.target = Serialized(buf)
        /\ sv.fails = {}
        /\ ~dirty

(* C7: in v0.1, a save that failed at open or at a write leaves the target
   file as it was before the save. *)
C7_SaveFailureV01 ==
    (ver = "v01" /\ sv.pc = "done" /\ ~sv.ret) => fs.target = sv.before

----------------------------------------------------------------------------
(* The key decoder: editor_read_key of both variants, reading the terminal  *)
(* one byte at a time.  The terminal is in raw mode with VMIN = 0 and       *)
(* VTIME = 1: read() returns one byte, or 0 after a tenth of a second with  *)
(* no input.  kb.stream is what the reads will deliver, in order: a byte,   *)
(* or GAP for a read that times out; once it is empty every read times out. *)

GAP == -1

SEQ_SIZE == 16

(* read(STDIN_FILENO, &c, 1): [got, byte, rest] *)
read(stream) ==
    IF stream = <<>> THEN [got |-> FALSE, byte |-> NUL, rest |-> <<>>]
    ELSE IF Head(stream) = GAP THEN [got |-> FALSE, byte |-> NUL, rest |-> Tail(stream)]
    ELSE [got |-> TRUE, byte |-> Head(stream), rest |-> Tail(stream)]

(* the first loop of editor_read_key: read until a byte arrives *)
RECURSIVE WaitByte(_)
WaitByte(stream) ==
    LET r == read(stream)
    IN IF r.got \/ stream = <<>> THEN r ELSE WaitByte(r.rest)

(* the first loop ends only when a byte arrives *)
HasByte(stream) == \E i \in 1..Len(stream) : stream[i] # GAP

IsUpper(b) == b >= 65 /\ b <= 90

IsDigit(b) == b >= 48 /\ b <= 57

(* the collection loop of v0.3: [seq, rest] *)
RECURSIVE Collect(_, _)
Collect(stream, seq) ==
    IF Len(seq) >= SEQ_SIZE THEN [seq |-> seq, rest |-> stream]
    ELSE LET r == read(stream)
         IN IF ~r.got THEN [seq |-> seq, rest |-> r.rest]
            ELSE IF IsUpper(r.byte) \/ r.byte = 126
                 THEN [seq |-> Append(seq, r.byte), rest |-> r.rest]
                 ELSE Collect(r.rest, Append(seq, r.byte))

(* for (i = 1; i < n-1; i++) if digit: num = num*10 + digit; i is the C index *)
RECURSIVE ParseNum(_, _, _)
ParseNum(seq, i, num) ==
    IF i >= Len(seq) - 1 THEN num
    ELSE ParseNum(seq, i + 1, IF IsDigit(seq[i + 1]) THEN num * 10 + (seq[i + 1] - 48) ELSE num)

(* switch on the final letter, common to ESC [ x and ESC O x *)
LetterKey(x) ==
    CASE x = 65 -> KEY_UP
      [] x = 66 -> KEY_DOWN
      [] x = 67 -> KEY_RIGHT
      [] x = 68 -> KEY_LEFT
      [] x = 72 -> KEY_HOME
      [] x = 70 -> KEY_END
      [] OTHER -> ESC

(* the switch without its cases 7 and 8 *)
NumKey_no78(num) ==
    CASE num = 1 -> KEY_HOME
      [] num = 4 -> KEY_END
      [] num = 3 -> DEL
      [] num = 5 -> KEY_PAGEUP
      [] num = 6 -> KEY_PAGEDOWN
      [] OTHER -> ESC

(* switch (num) of v0.3 *)
NumKey(num) ==
    CASE num = 1 \/ num = 7 -> KEY_HOME
      [] num = 4 \/ num = 8 -> KEY_END
      [] num = 3 -> DEL
      [] num = 5 -> KEY_PAGEUP
      [] num = 6 -> KEY_PAGEDOWN
      [] OTHER -> ESC

(* the classification of the collected bytes, v0.3 *)
Classify(seq) ==
    LET n == Len(seq)
    IN IF n = 0 THEN ESC
       ELSE IF seq[1] = 91 THEN
            IF n = 2 THEN LetterKey(seq[2])
            ELSE IF n >= 3 /\ IsDigit(seq[2]) THEN NumKey(ParseNum(seq, 1, 0))
            ELSE ESC
       ELSE IF seq[1] = 79 THEN
            IF n = 2 THEN LetterKey(seq[2]) ELSE ESC
       ELSE ESC

(* editor_read_key of v0.3, called with a byte to come: [key, rest] *)
editor_read_key(stream) ==
    LET f == WaitByte(stream)
    IN IF f.byte # ESC THEN [key |-> f.byte, rest |-> f.rest]
       ELSE LET c == Collect(f.rest, <<>>)
            IN [key |-> Classify(c.seq), rest |-> c.rest]

(* switch (seq[1]) of v0.1 after ESC [ digit ~ *)
DigitKey_v1(d) ==
    CASE d = 49 -> KEY_HOME
      [] d = 52 -> KEY_END
      [] d = 51 -> DEL
      [] d = 53 -> KEY_PAGEUP
      [] d = 54 -> KEY_PAGEDOWN
      [] OTHER -> ESC

(* editor_read_key of v0.1: [key, rest] *)
editor_read_key_v1(stream) ==
    LET f == WaitByte(stream)
    IN IF f.byte # ESC THEN [key |-> f.byte, rest |-> f.rest]
       ELSE
       LET r0 == read(f.rest)
       IN IF ~r0.got THEN [key |-> ESC, rest |-> r0.rest]
          ELSE
          LET r1 == read(r0.rest)
          IN IF ~r1.got THEN [key |-> ESC, rest |-> r1.rest]
             ELSE IF r0.byte # 91 THEN [key |-> ESC, rest |-> r1.rest]
             ELSE IF IsDigit(r1.byte) THEN
                  LET r2 == read(r1.rest)
                  IN IF ~r2.got THEN [key |-> ESC, rest |-> r2.rest]
                     ELSE [key |-> IF r2.byte = 126 THEN DigitKey_v1(r1.byte) ELSE ESC,
                           rest |-> r2.rest]
             ELSE [key |-> LetterKey(r1.byte), rest |-> r1.rest]

----------------------------------------------------------------------------
(* State machine of the keyboard: the main loop of each variant fed from    *)
(* the terminal, one iteration per step: editor_read_key, then the if-chain *)

MaxTail == 3

(* bytes that follow an ESC: [ O A B C D H F 1 3 4 5 6 7 8 ~, or a timeout *)
TailBytes == {91, 79, 65, 66, 67, 68, 72, 70, 49, 51, 52, 53, 54, 55, 56, 126, GAP}

Printable == {c \in 0..255 : isprint(c)}

(* what is typed: an ESC and what follows it, or a printable byte, alone or after an 'a' *)
KeyStreams ==
    {<<ESC>> \o t : t \in SeqsUpTo(TailBytes, MaxTail)}
        \cup {t \o <<c>> : t \in SeqsUpTo(Typed, 1), c \in Printable}

KeyFile == File(<<97, LF, 97>>)

InitKeys ==
    /\ ver \in {"v01", "v03"}
    /\ LET g == Startup(ver, KeyFile)
       IN /\ buf = g.buf /\ view = g.view /\ dirty = g.dirty
          /\ quit_times_needed = g.quit_times_needed /\ statusmsg = g.statusmsg
          /\ srch = g.srch /\ hl = g.hl /\ exited = g.exited /\ branch = g.branch
    /\ fs = [target |-> KeyFile, tmp |-> NoFile]
    /\ sv = SvIdle
    /\ tty = TtyIdle
    /\ \E t \in KeyStreams : kb = [input |-> t, stream |-> t, keys |-> <<>>]

(* one iteration of the v0.3 loop *)
KeyStep3 ==
    /\ ver = "v03" /\ ~exited /\ HasByte(kb.stream)
    /\ LET r == editor_read_key(kb.stream)
       IN /\ \E screenrows \in ScreenRows :
                Commit(main_v03(G, r.key, TRUE, TRUE, <<>>, screenrows))
          /\ kb' = [kb EXCEPT !.stream = r.rest, !.keys = Append(@, r.key)]
    /\ UNCHANGED <<ver, fs, sv, tty>>

(* one iteration of the v0.1 loop *)
KeyStep1 ==
    /\ ver = "v01" /\ ~exited /\ HasByte(kb.stream)
    /\ LET r == editor_read_key_v1(kb.stream)
       IN /\ Commit(main_v01(G, r.key, TRUE))
          /\ kb' = [kb EXCEPT !.stream = r.rest, !.keys = Append(@, r.key)]
    /\ UNCHANGED <<ver, fs, sv, tty>>

NextKeys == KeyStep3 \/ KeyStep1

SpecKeys == InitKeys /\ [][NextKeys]_vars

----------------------------------------------------------------------------
(* Properties of the keyboard *)

(* the recognised escape sequences and the key each stands for *)
FinalLetters == {65, 66, 67, 68, 72, 70}

BracketForms ==
    {<<ESC, 91, x>> : x \in FinalLetters}
        \cup {<<ESC, 91, d, 126>> : d \in {49, 51, 52, 53, 54, 55, 56}}

AltForms == {<<ESC, 79, x>> : x \in FinalLetters}

ExpectedKey(p) ==
    LET x == p[3]
    IN IF Len(p) = 3
       THEN CASE x = 65 -> 1001 [] x = 66 -> 1002 [] x = 67 -> 1003
              [] x = 68 -> 1004 [] x = 72 -> 72 [] x = 70 -> 69
       ELSE CASE x \in {49, 55} -> 72 [] x \in {52, 56} -> 69
              [] x = 51 -> 127 [] x = 53 -> 1005 [] x = 54 -> 1006

IsPrefix(p, t) == Len(p) <= Len(t) /\ SubSeq(t, 1, Len(p)) = p

(* C11: in each variant, an iteration of the main loop that reads a printable
   byte c as an ordinary key inserts c into line cy at column cx, advances cx
   by one and sets dirty; this for every printable byte, 'H' and 'E' too. *)
C11_PrintableInserts ==
    [][(kb.stream # <<>> /\ isprint(Head(kb.stream)) /\ kb'.stream # kb.stream) =>
          /\ buf'.count = buf.count
          /\ buf'.lines = [buf.lines EXCEPT ![view.cy + 1] = InsertAt(@, view.cx, Head(kb.stream))]
          /\ buf'.len = [buf.len EXCEPT ![view.cy + 1] = @ + 1]
          /\ view'.cx = view.cx + 1 /\ view'.cy = view.cy
          /\ dirty']_vars

(* C12: in v0.3, the input ESC O x, x one of A B C D H F, all bytes at hand,
   is consumed by one call of editor_read_key, which returns the key that
   ESC [ x decodes to; no byte is left for a following call. *)
C12_AltKeypad ==
    (ver = "v03" /\ kb.input \in AltForms /\ kb.keys # <<>>) =>
        /\ kb.keys = <<editor_read_key(<<ESC, 91, kb.input[3]>>).key>>
        /\ kb.stream = <<>>

(* C13: in v0.3, when the input begins with a recognised bracket sequence with
   all its bytes at hand, the first call of editor_read_key returns the key the
   sequence stands for and consumes exactly the sequence; every call returns
   one key. *)
C13_BracketForms ==
    ver = "v03" =>
        \A p \in BracketForms :
            (IsPrefix(p, kb.input) /\ kb.keys # <<>>) =>
                /\ kb.keys[1] = ExpectedKey(p)
                /\ Len(kb.keys) = 1 => kb.stream = SubSeq(kb.input, Len(p) + 1, Len(kb.input))

C13_Witness ==
    /\ ver = "v03" /\ kb.input = <<ESC, 91, 54, 126>> /\ kb.keys = <<KEY_PAGEDOWN>>
    /\ view.cy = 1 /\ kb.stream = <<>>

(* C14: in v0.3, when the input starts with ESC and does not begin with a
   recognised sequence, the first call of editor_read_key returns ESC. *)
C14_MalformedIsEscape ==
    (/\ ver = "v03" /\ kb.input[1] = ESC /\ kb.keys # <<>>
     /\ \A p \in BracketForms \cup AltForms : ~IsPrefix(p, kb.input)) =>
        kb.keys[1] = ESC

(* C15: in v0.3, when a recognised bracket sequence arrives with one read
   timing out between two of its bytes, the first key returned is still the
   key the sequence stands for, no later call returns a printable key, and
   nothing is inserted into the document. *)
C15_SplitSequence ==
    (/\ ver = "v03" /\ kb.keys # <<>>
     /\ \E p \in BracketForms : \E i \in 1..(Len(p) - 1) :
            kb.input = InsertAt(p, i, GAP)) =>
        /\ kb.keys[1] = ExpectedKey(SelectSeq(kb.input, LAMBDA b : b # GAP))
        /\ \A k \in 2..Len(kb.keys) : ~isprint(kb.keys[k])
        /\ ~dirty

----------------------------------------------------------------------------
(* State machine of the search: the v0.3 main loop on a loaded document,    *)
(* fed with Ctrl-F and Ctrl-N.  kb.stream holds the keys editor_read_key    *)
(* will return, in order.                                                    *)

MaxSearchFile == 3
MaxSearchQuery == 2
MaxKeys == 3

SearchBytes == {97, 98}

SearchFiles == {File(d) : d \in SeqsUpTo(SearchBytes \cup {LF}, MaxSearchFile)}

SearchQueries == SeqsUpTo(SearchBytes, MaxSearchQuery) \ {<<>>}

SearchKeys == SeqsUpTo({CTRL_F, CTRL_N}, MaxKeys)

InitSearch ==
    /\ ver = "v03"
    /\ \E f \in SearchFiles :
          LET g == Startup(ver, f)
          IN /\ buf = g.buf /\ dirty = g.dirty
             /\ quit_times_needed = g.quit_times_needed /\ statusmsg = g.statusmsg
             /\ srch = g.srch /\ hl = g.hl /\ exited = g.exited /\ branch = g.branch
             /\ \E cy \in 0..(g.buf.count - 1) : \E cx \in 0..g.buf.len[cy + 1] :
                    view = [cx |-> cx, cy |-> cy, pref_cx |-> cx]
             /\ fs = [target |-> f, tmp |-> NoFile]
    /\ sv = SvIdle
    /\ tty = TtyIdle
    /\ \E t \in SearchKeys : kb = [input |-> t, stream |-> t, keys |-> <<>>]

(* one iteration of the main loop on the next key; a Ctrl-F prompt is either
   cancelled (written <<>> here) or confirmed with a query, and no other key
   opens the prompt; the height of the
   screen plays no part in these two arms *)
SearchStep ==
    /\ ver = "v03" /\ ~exited /\ kb.stream # <<>>
    /\ \E query \in (IF Head(kb.stream) = CTRL_F THEN SearchQueries ELSE {}) \cup {<<>>} :
          Commit(main_v03(G, Head(kb.stream), TRUE, query = <<>>, query,
                          CHOOSE r \in ScreenRows : TRUE))
    /\ kb' = [kb EXCEPT !.stream = Tail(@), !.keys = Append(@, Head(kb.stream))]
    /\ UNCHANGED <<ver, fs, sv, tty>>

NextSearch == SearchStep

SpecSearch == InitSearch /\ [][NextSearch]_vars

----------------------------------------------------------------------------
(* Properties of the search *)

(* the start positions <<row, col>> of the occurrences of q in b *)
Occurrences(b, q) ==
    IF q = <<>> THEN {}
    ELSE {o \in (0..(b.count - 1)) \X (0..MaxSearchFile) :
            /\ o[2] + Len(q) <= b.len[o[1] + 1]
            /\ SubSeq(b.lines[o[1] + 1], o[2] + 1, o[2] + Len(q)) = q}

Before(o, p) == o[1] < p[1] \/ (o[1] = p[1] /\ o[2] < p[2])

FirstOf(S) == CHOOSE o \in S : \A p \in S : p = o \/ Before(o, p)

(* the occurrence after o in document order, the first one after the last *)
NextOccurrence(S, o) ==
    LET later == {p \in S : Before(o, p)}
    IN IF later = {} THEN FirstOf(S) ELSE FirstOf(later)

Cursor == <<view.cy, view.cx>>

(* C16: in v0.3, a confirmed Ctrl-F with the cursor at or before the first
   occurrence of the query puts the cursor on the first occurrence, and a
   Ctrl-N with the cursor on the occurrence last found puts it on the next
   occurrence in (row, col) order, on the first one after the last; so
   Ctrl-F and repeated Ctrl-N visit the k occurrences in order and cycle. *)
C16_SearchWraparound ==
    [][(kb.stream # <<>> /\ kb'.keys # kb.keys) =>
          LET occF == Occurrences(buf, srch'.last_query)
              occN == Occurrences(buf, srch.last_query)
          IN /\ (/\ Head(kb.stream) = CTRL_F /\ statusmsg' # "Canceled"
                 /\ occF # {} /\ (Cursor = FirstOf(occF) \/ Before(Cursor, FirstOf(occF))))
                    => (<<view'.cy, view'.cx>> = FirstOf(occF) /\ statusmsg' = "Found")
             /\ (/\ Head(kb.stream) = CTRL_N /\ Cursor \in occN
                 /\ Cursor = <<srch.last_match_row, srch.last_match_col>>)
                    => <<view'.cy, view'.cx>> = NextOccurrence(occN, Cursor)]_vars

C16_Witness ==
    /\ kb.keys = <<CTRL_F, CTRL_N, CTRL_N>>
    /\ Cardinality(Occurrences(buf, srch.last_query)) = 2
    /\ buf.count = 2
    /\ Cursor = <<0, 0>> /\ hl = [row |-> 0, col |-> 0, len |-> 1]
    /\ statusmsg = "Found"

(* C17: in v0.3, a confirmed Ctrl-F or a Ctrl-N whose query occurs nowhere in
   the document reports not-found and leaves the cursor (cx, cy, pref_cx) and
   the highlight (hl_row, hl_col, hl_len) exactly as they were. *)
C17_SearchMiss ==
    [][(/\ kb.stream # <<>> /\ kb'.keys # kb.keys
        /\ \/ /\ Head(kb.stream) = CTRL_F /\ statusmsg' # "Canceled"
              /\ Occurrences(buf, srch'.last_query) = {}
           \/ /\ Head(kb.stream) = CTRL_N
              /\ Occurrences(buf, srch.last_query) = {}) =>
          /\ statusmsg' \in {"Not found", "No more matches"}
          /\ view' = view
          /\ hl' = hl]_vars

----------------------------------------------------------------------------
(* State machine of the round trip: v0.3 started on an existing file, then  *)
(* Ctrl-S with no edit in between; the save runs step by step as above.     *)

MaxRoundFile == 3

RoundFiles == {File(d) : d \in SeqsUpTo({97, LF, CR}, MaxRoundFile)}

InitRound ==
    /\ ver = "v03"
    /\ \E f \in RoundFiles :
          LET g == Startup(ver, f)
          IN /\ buf = g.buf /\ view = g.view /\ dirty = g.dirty
             /\ quit_times_needed = g.quit_times_needed /\ statusmsg = g.statusmsg
             /\ srch = g.srch /\ hl = g.hl /\ exited = g.exited /\ branch = g.branch
             /\ fs = [target |-> f, tmp |-> NoFile]
    /\ sv = SvIdle
    /\ tty = TtyIdle
    /\ kb = KbIdle

NextRound ==
    \/ BeginSave
    \/ Sv3Open \/ Sv3WriteLine \/ Sv3WriteNl \/ Sv3Fsync \/ Sv3Close
    \/ Sv3Unlink \/ Sv3Rename \/ Sv3Return

SpecRound == InitRound /\ [][NextRound]_vars

----------------------------------------------------------------------------
(* Properties of the round trip *)

(* no CR, and every line ends with one LF: empty, or the last byte is LF *)
LfTerminated(d) ==
    /\ \A i \in 1..Len(d) : d[i] # CR
    /\ d = <<>> \/ d[Len(d)] = LF

(* C18: in v0.3, after loading a file and saving it with no edit, when the
   save returned true: if the file had no CR and every line ended with one LF
   (the empty file included), the file is byte for byte what it was; and for
   every file, loading the saved file gives the lines the first load gave. *)
C18_RoundTrip ==
    (sv.pc = "done" /\ sv.ret) =>
        /\ LfTerminated(sv.before.data) => fs.target = sv.before
        /\ editor_open(Globals0, fs.target).buf = sv.g0.buf

----------------------------------------------------------------------------
(* State machine of one edit: the v0.3 main loop with a document in the     *)
(* buffer and the cursor somewhere in it, fed with one key.                  *)

MaxEditFile == 4

EditFiles == {File(d) : d \in SeqsUpTo(SearchBytes \cup {LF}, MaxEditFile)}

EditKeys == {<<DEL>>, <<KEY_LEFT>>, <<KEY_RIGHT>>}

(* the longest line of b *)
MaxLineLen(b) == CHOOSE m \in 0..MaxEditFile :
                    /\ \A i \in 1..b.count : b.len[i] <= m
                    /\ \E i \in 1..b.count : b.len[i] = m

(* the cursors the motion keys can produce on b: any position with the
   preferred column on it, or the end of a line with the preferred column
   kept from a longer line *)
Views(b) ==
    {[cx |-> cx, cy |-> cy, pref_cx |-> cx] :
        <<cy, cx>> \in {p \in (0..(b.count - 1)) \X (0..MaxEditFile) : p[2] <= b.len[p[1] + 1]}}
    \cup
    {[cx |-> b.len[cy + 1], cy |-> cy, pref_cx |-> p] :
        <<cy, p>> \in {q \in (0..(b.count - 1)) \X (0..MaxEditFile) :
                          q[2] > b.len[q[1] + 1] /\ q[2] <= MaxLineLen(b)}}

InitEdit ==
    /\ ver = "v03"
    /\ \E f \in EditFiles :
          LET g == Startup(ver, f)
          IN /\ buf = g.buf
             /\ quit_times_needed = g.quit_times_needed /\ statusmsg = g.statusmsg
             /\ srch = g.srch /\ hl = g.hl /\ exited = g.exited /\ branch = g.branch
             /\ view \in Views(g.buf)
             /\ fs = [target |-> f, tmp |-> NoFile]
    /\ dirty \in BOOLEAN
    /\ sv = SvIdle
    /\ tty = TtyIdle
    /\ \E t \in EditKeys : kb = [input |-> t, stream |-> t, keys |-> <<>>]

(* one iteration of the main loop on the next key *)
EditStep ==
    /\ ver = "v03" /\ ~exited /\ kb.stream # <<>>
    /\ Commit(main_v03(G, Head(kb.stream), TRUE, TRUE, <<>>, CHOOSE r \in ScreenRows : TRUE))
    /\ kb' = [kb EXCEPT !.stream = Tail(@), !.keys = Append(@, Head(kb.stream))]
    /\ UNCHANGED <<ver, fs, sv, tty>>

NextEdit == EditStep

SpecEdit == InitEdit /\ [][NextEdit]_vars

----------------------------------------------------------------------------
(* Properties of one edit *)

(* the content of line i (1-based) of b, without its terminator *)
Text(b, i) == SubSeq(b.lines[i], 1, b.len[i])

(* C19: in v0.3, Backspace with the cursor at column 0 of row r > 0 replaces
   lines r-1 and r by line r-1 followed by line r, keeps the other lines in
   order, decreases count by one and puts the cursor at (r-1, old length of
   line r-1); Backspace at (0,0) changes neither buffer, cursor nor dirty. *)
C19_BackspaceJoin ==
    [][(kb.stream # <<>> /\ Head(kb.stream) = DEL /\ kb'.keys # kb.keys /\ view.cx = 0) =>
          LET r == view.cy
          IN IF r > 0
             THEN /\ buf'.count = buf.count - 1
                  /\ Len(buf'.lines) = buf.count - 1
                  /\ \A j \in 1..(buf.count - 1) :
                        Text(buf', j) = IF j < r THEN Text(buf, j)
                                        ELSE IF j = r THEN Text(buf, r) \o Text(buf, r + 1)
                                        ELSE Text(buf, j + 1)
                  /\ view'.cy = r - 1 /\ view'.cx = buf.len[r]
             ELSE buf' = buf /\ view' = view /\ dirty' = dirty]_vars

C19_Witness ==
    /\ kb.keys = <<DEL>> /\ fs.target = File(<<97, 98, LF, 97>>)
    /\ buf.count = 1 /\ buf.lines = <<<<97, 98, 97, NUL>>>>
    /\ view.cy = 0 /\ view.cx = 2

(* C20: in v0.3, Right at the end of a line that is not the last moves the
   cursor to (cy+1, 0), Left at column 0 of a line that is not the first moves
   it to (cy-1, len(cy-1)); Right at the end of the last line and Left at
   (0,0) leave it where it is; after a Left or Right that moved the cursor
   pref_cx = cx; the buffer is unchanged. *)
C20_HorizontalWrap ==
    [][(kb.stream # <<>> /\ Head(kb.stream) \in {KEY_LEFT, KEY_RIGHT} /\ kb'.keys # kb.keys) =>
          LET key == Head(kb.stream)
              L == buf.len[view.cy + 1]
              last == view.cy = buf.count - 1
          IN /\ (key = KEY_RIGHT /\ view.cx = L /\ ~last) => (view'.cy = view.cy + 1 /\ view'.cx = 0)
             /\ (key = KEY_RIGHT /\ view.cx = L /\ last) => (view'.cy = view.cy /\ view'.cx = view.cx)
             /\ (key = KEY_LEFT /\ view.cx = 0 /\ view.cy > 0) =>
                    (view'.cy = view.cy - 1 /\ view'.cx = buf.len[view.cy])
             /\ (key = KEY_LEFT /\ view.cx = 0 /\ view.cy = 0) => (view'.cy = 0 /\ view'.cx = 0)
             /\ (view'.cx # view.cx \/ view'.cy # view.cy) => view'.pref_cx = view'.cx
             /\ buf' = buf]_vars

C20_Witness ==
    /\ kb.keys = <<KEY_RIGHT>> /\ buf.count = 2 /\ buf.len[1] = 2
    /\ view = [cx |-> 0, cy |-> 1, pref_cx |-> 0]

----------------------------------------------------------------------------
(* Typing: the main loop of v0.3 run on short key sequences, from every
   document of SearchFiles and every cursor *)

MaxVertKeys == 3

VertKeys == {KEY_UP, KEY_DOWN, KEY_PAGEUP, KEY_PAGEDOWN}

(* the keys of the arms of main that edit the buffer or move the cursor *)
EditMotionKeys ==
    {97, CR, LF, DEL, KEY_UP, KEY_DOWN, KEY_LEFT, KEY_RIGHT, KEY_HOME, KEY_END,
     KEY_PAGEUP, KEY_PAGEDOWN}

TypeStreams ==
    SeqsUpTo(VertKeys, MaxVertKeys)
        \cup {<<CTRL_F, k>> : k \in EditMotionKeys}
        \cup {<<CR, DEL>>}

InitType ==
    /\ ver = "v03"
    /\ \E f \in SearchFiles :
          LET g == Startup(ver, f)
          IN /\ buf = g.buf /\ dirty = g.dirty
             /\ quit_times_needed = g.quit_times_needed /\ statusmsg = g.statusmsg
             /\ srch = g.srch /\ hl = g.hl /\ exited = g.exited /\ branch = g.branch
             /\ \E cy \in 0..(g.buf.count - 1) : \E cx \in 0..g.buf.len[cy + 1] :
                    view = [cx |-> cx, cy |-> cy, pref_cx |-> cx]
             /\ fs = [target |-> f, tmp |-> NoFile]
    /\ sv = SvIdle
    /\ tty = TtyIdle
    /\ \E t \in TypeStreams : kb = [input |-> t, stream |-> t, keys |-> <<>>]

NextType == SearchStep

SpecType == InitType /\ [][NextType]_vars

(* Enter and then Backspace, as main dispatches them *)
EnterBackspace(g) ==
    main_v03(main_v03(g, CR, TRUE, TRUE, <<>>, CHOOSE r \in ScreenRows : TRUE),
             DEL, TRUE, TRUE, <<>>, CHOOSE r \in ScreenRows : TRUE)

(* C21: in v0.3 buffer_split_line(r, c) followed by buffer_join_with_prev(r + 1)
   gives back the same buffer (line count, bytes and cached length of every
   line) for every row r and every column c of that row, and Enter followed
   at once by Backspace gives back the buffer and the cursor position *)
C21_SplitJoinInverse ==
    ver = "v03" =>
        /\ \A r \in 0..(buf.count - 1) : \A c \in 0..buf.len[r + 1] :
              buffer_join_with_prev(buffer_split_line(G, r, c), r + 1).buf = buf
        /\ EnterBackspace(G).buf = buf
        /\ EnterBackspace(G).view.cx = view.cx
        /\ EnterBackspace(G).view.cy = view.cy

(* Enter in the middle of a line and then Backspace have been typed, and the
   buffer is the loaded document again *)
C21_Witness ==
    /\ kb.keys = <<CR, DEL>> /\ view.cx = 1 /\ buf.len[view.cy + 1] = 2
    /\ buf = Startup(ver, fs.target).buf /\ dirty

----------------------------------------------------------------------------
(* Properties of a find that succeeds *)

(* the occurrence a find from the cursor has to land on: the first one at or
   after the cursor in document order, else the first one of the document *)
FromCursor(S) ==
    LET here == {o \in S : o = Cursor \/ Before(Cursor, o)}
    IN IF here = {} THEN FirstOf(S) ELSE FirstOf(here)

(* C24: in v0.3, a confirmed Ctrl-F whose query occurs in the document lands
   on the first occurrence at or after the cursor in document order, else on
   the first occurrence of the document; it puts the cursor there with
   pref_cx = cx, records the place in last_match_row and last_match_col, and
   sets the highlight to (row, col, length of the query). *)
C24_FindSuccess ==
    [][(/\ kb.stream # <<>> /\ kb'.keys # kb.keys
        /\ Head(kb.stream) = CTRL_F /\ statusmsg' # "Canceled"
        /\ Occurrences(buf, srch'.last_query) # {}) =>
          LET m == FromCursor(Occurrences(buf, srch'.last_query))
          IN /\ view'.cy = m[1] /\ view'.cx = m[2] /\ view'.pref_cx = view'.cx
             /\ srch'.last_match_row = m[1] /\ srch'.last_match_col = m[2]
             /\ hl' = [row |-> m[1], col |-> m[2], len |-> Len(srch'.last_query)]
             /\ statusmsg' = "Found"]_vars

(* a find of a two-byte query that found it at column 1 of the first line *)
C24_Witness ==
    /\ kb.keys = <<CTRL_F>> /\ statusmsg = "Found"
    /\ Len(srch.last_query) = 2
    /\ hl = [row |-> 0, col |-> 1, len |-> 2]
    /\ view = [cx |-> 1, cy |-> 0, pref_cx |-> 1]
    /\ srch.last_match_row = 0 /\ srch.last_match_col = 1

----------------------------------------------------------------------------
(* Properties of the keys typed one after the other *)

(* the key the step dispatches, when the step is one iteration of the loop *)
Dispatches(K) == kb.stream # <<>> /\ kb'.keys # kb.keys /\ Head(kb.stream) \in K

(* C25: in v0.3, after main dispatches an edit key (printable byte, Enter,
   Backspace) or a cursor-motion key (arrows, Home, End, PageUp, PageDown) no
   search highlight is active (hl_len <= 0), whatever it was before. *)
C25_HighlightCleared ==
    [][Dispatches(EditMotionKeys) => hl'.len <= 0]_vars

(* a printable byte typed right after a find that had set the highlight *)
C25_Witness ==
    /\ kb.keys = <<CTRL_F, 97>> /\ statusmsg = "Found" /\ srch.last_query # <<>>
    /\ hl.len = -1 /\ dirty

(* C26: in v0.3, during a sequence made only of Up, Down, PageUp and PageDown
   pref_cx is never modified and after each key cx = min(pref_cx, len(cy)),
   so that coming back to a line at least as long as pref_cx gives cx =
   pref_cx again. *)
C26_PreferredColumn ==
    [][Dispatches(VertKeys) =>
          /\ view'.pref_cx = view.pref_cx
          /\ view'.cx = Min(view'.pref_cx, buf'.len[view'.cy + 1])]_vars

(* from column 2 of a two-byte line down onto an empty line and up again *)
C26_Witness ==
    /\ kb.keys = <<KEY_DOWN, KEY_UP>> /\ buf.count = 2
    /\ buf.len[1] = 2 /\ buf.len[2] = 0
    /\ view = [cx |-> 2, cy |-> 0, pref_cx |-> 2]

(* C27: in v0.3, Down with cy = count - 1 appends exactly one empty line at
   the end of the buffer (count grows by one, the lines there were are
   unchanged) and moves the cursor onto it at column 0; Down on any other
   line and PageDown on any line never change the number of lines. *)
C27_DownAppends ==
    [][/\ (Dispatches({KEY_DOWN}) /\ view.cy = buf.count - 1) =>
             /\ buf'.count = buf.count + 1
             /\ SubSeq(buf'.lines, 1, buf.count) = buf.lines
             /\ SubSeq(buf'.len, 1, buf.count) = buf.len
             /\ buf'.lines[buf'.count] = <<NUL>> /\ buf'.len[buf'.count] = 0
             /\ view'.cy = buf.count /\ view'.cx = 0
       /\ (Dispatches({KEY_DOWN}) /\ view.cy # buf.count - 1) =>
             buf'.count = buf.count
       /\ Dispatches({KEY_PAGEDOWN}) => buf'.count = buf.count]_vars

(* Down typed at column 1 of the last of two lines *)
C27_Witness ==
    /\ kb.keys = <<KEY_DOWN>> /\ buf.count = 3 /\ buf.len[2] = 1
    /\ buf.len[3] = 0 /\ view = [cx |-> 0, cy |-> 2, pref_cx |-> 1]

----------------------------------------------------------------------------
(* Rendering: window size, scrolling and cursor placement.  The View of     *)
(* these specifications carries rowoff, coloff, screenrows and screencols   *)
(* beside cx, cy and pref_cx.                                               *)

(* the text area of v0.3 for a window of <<rows, cols>> *)
DimsOf(size) == <<IF size[1] - 2 < 1 THEN 1 ELSE size[1] - 2, size[2]>>

(* v0.3; ok: get_window_size succeeded.  [changed, view] *)
editor_update_dimensions(v, size, ok) ==
    LET rows == IF ok THEN size[1]
                ELSE IF v.screenrows > 0 THEN v.screenrows + 2 ELSE 24
        cols == IF ok THEN size[2]
                ELSE IF v.screencols > 0 THEN v.screencols ELSE 80
        textrows == IF rows - 2 < 1 THEN 1 ELSE rows - 2
    IN [changed |-> textrows # v.screenrows \/ cols # v.screencols,
        view |-> [v EXCEPT !.screenrows = textrows, !.screencols = cols]]

(* editor_scroll that moves the window by one row or column a call *)
editor_scroll_step(v) ==
    LET r1 == IF v.cy < v.rowoff THEN v.cy ELSE v.rowoff
        r2 == IF v.cy >= r1 + v.screenrows THEN r1 + 1 ELSE r1
        c1 == IF v.cx < v.coloff THEN v.cx ELSE v.coloff
        c2 == IF v.cx >= c1 + v.screencols THEN c1 + 1 ELSE c1
    IN [v EXCEPT !.rowoff = r2, !.coloff = c2]

editor_scroll(v) ==
    LET r1 == IF v.cy < v.rowoff THEN v.cy ELSE v.rowoff
        r2 == IF v.cy >= r1 + v.screenrows THEN v.cy - v.screenrows + 1 ELSE r1
        c1 == IF v.cx < v.coloff THEN v.cx ELSE v.coloff
        c2 == IF v.cx >= c1 + v.screencols THEN v.cx - v.screencols + 1 ELSE c1
    IN [v EXCEPT !.rowoff = r2, !.coloff = c2]

(* the cursor move of editor_draw_screen written with the offsets left out *)
CursorPlace_abs(v) == <<v.cy + 1, v.cx + 1>>

(* the cursor move editor_draw_screen writes: <<row, col>>, 1-based *)
CursorPlace(v) ==
    LET y0 == v.cy - v.rowoff
        x0 == v.cx - v.coloff
        y1 == IF y0 < 0 THEN 0 ELSE y0
        y2 == IF y1 >= v.screenrows THEN v.screenrows - 1 ELSE y1
        x1 == IF x0 < 0 THEN 0 ELSE x0
        x2 == IF x1 >= v.screencols THEN v.screencols - 1 ELSE x1
    IN <<y2 + 1, x2 + 1>>

(* xwrite that fails: perror and _exit(1), no handler of atexit runs *)
xwrite_failed(t) == [t EXCEPT !.proc = "_exit"]

(* editor_draw_screen of v0.3.  fail: 0 when every xwrite succeeds, 1 when the
   first one fails (before editor_scroll), 2 when one of those that draw the
   rows and the bars fails, 3 when the last one fails (after the cursor
   move).  [view, tty] *)
editor_draw_screen(v, t, fail) ==
    IF fail = 1 THEN [view |-> v, tty |-> xwrite_failed(t)]
    ELSE LET v1 == editor_scroll(v)
         IN IF fail = 2 THEN [view |-> v1, tty |-> xwrite_failed(t)]
            ELSE LET t1 == [t EXCEPT !.drawn = <<v1.screenrows, v1.screencols>>,
                                     !.cursor = CursorPlace(v1)]
                 IN [view |-> v1,
                     tty |-> IF fail = 3 THEN xwrite_failed(t1) ELSE t1]

(* the end of an iteration of main, v0.3: the size is asked again and the
   screen drawn if it changed or if the arm asked for it *)
main_refresh(v, t, request_redraw, ok, fail) ==
    LET d == editor_update_dimensions(v, t.size, ok)
    IN IF d.changed \/ request_redraw
       THEN editor_draw_screen(d.view, t, fail)
       ELSE [view |-> d.view, tty |-> t]

(* v0.1; ok: get_window_size succeeded *)
editor_init_dimensions(v, size, ok) ==
    LET rows == IF ok THEN size[1] ELSE 24
        cols == IF ok THEN size[2] ELSE 80
    IN [v EXCEPT !.screenrows = rows - 2, !.screencols = cols]

editor_scroll_v1(v) ==
    LET r1 == IF v.cy < v.rowoff THEN v.cy ELSE v.rowoff
        r2 == IF v.cy >= r1 + v.screenrows - 1 THEN v.cy - v.screenrows + 2 ELSE r1
        c1 == IF v.coloff < 0 THEN 0 ELSE v.coloff
    IN [v EXCEPT !.rowoff = r2, !.coloff = c1]

CursorPlace_v1(v) ==
    LET y0 == v.cy - v.rowoff
        x0 == v.cx - v.coloff
        y1 == IF y0 < 0 THEN 0 ELSE y0
        y2 == IF y1 >= v.screenrows - 1 THEN v.screenrows - 2 ELSE y1
        x1 == IF x0 < 0 THEN 0 ELSE x0
        x2 == IF x1 >= v.screencols THEN v.screencols - 1 ELSE x1
    IN <<y2 + 1, x2 + 1>>

(* editor_draw_screen of v0.1: its writes are not checked *)
editor_draw_screen_v1(v, t) ==
    [t EXCEPT !.drawn = <<v.screenrows, v.screencols>>, !.cursor = CursorPlace_v1(v)]

----------------------------------------------------------------------------
(* State machine of the rendering: every small document, cursor, pair of    *)
(* offsets and window; the window is resized and the screen drawn again.    *)

MaxScrollFile == 3
MaxOff == 2
MaxRows == 4
MaxCols == 2

ScrollFiles == {File(d) : d \in SeqsUpTo(FileBytes, MaxScrollFile)}

Sizes == (1..MaxRows) \X (1..MaxCols)

(* the offsets the variant can have reached: v0.1 never writes coloff *)
RowOffs == 0..MaxOff

ColOffs(v) == IF v = "v01" THEN {0} ELSE 0..MaxOff

(* the View after start-up, with the size of the window asked once *)
ViewAt(v, cx, cy, rowoff, coloff, size) ==
    LET v0 == [cx |-> cx, cy |-> cy, pref_cx |-> cx, rowoff |-> rowoff,
               coloff |-> coloff, screenrows |-> 0, screencols |-> 0]
    IN IF v = "v01" THEN editor_init_dimensions(v0, size, TRUE)
       ELSE editor_update_dimensions(v0, size, TRUE).view

InitScroll ==
    /\ ver \in {"v01", "v03"}
    /\ \E f \in ScrollFiles :
          LET g == Startup(ver, f)
          IN /\ buf = g.buf /\ dirty = g.dirty
             /\ quit_times_needed = g.quit_times_needed /\ statusmsg = g.statusmsg
             /\ srch = g.srch /\ hl = g.hl /\ exited = g.exited /\ branch = g.branch
             /\ fs = [target |-> f, tmp |-> NoFile]
             /\ \E cy \in 0..(g.buf.count - 1) : \E cx \in 0..g.buf.len[cy + 1] :
                \E ro \in RowOffs : \E co \in ColOffs(ver) : \E size \in Sizes :
                    /\ view = ViewAt(ver, cx, cy, ro, co, size)
                    /\ tty = [TtyIdle EXCEPT !.size = size]
    /\ sv = SvIdle
    /\ kb = KbIdle

(* the user resizes the window *)
TermResize ==
    /\ tty.proc \in {"start", "loop"}
    /\ \E size \in Sizes \ {tty.size} : tty' = [tty EXCEPT !.size = size]
    /\ UNCHANGED <<ver, buf, view, dirty, quit_times_needed, statusmsg, srch, hl,
                   exited, branch, fs, sv, kb>>

(* v0.3, the end of an iteration of main *)
RefreshV3 ==
    /\ ver = "v03" /\ tty.proc = "loop"
    /\ \E request_redraw \in BOOLEAN : \E ok \in BOOLEAN : \E fail \in 0..3 :
          LET r == main_refresh(view, tty, request_redraw, ok, fail)
          IN view' = r.view /\ tty' = r.tty
    /\ UNCHANGED <<ver, buf, dirty, quit_times_needed, statusmsg, srch, hl,
                   exited, branch, fs, sv, kb>>

(* v0.1, the end of an iteration of main and the start of the next *)
RefreshV1 ==
    /\ ver = "v01" /\ tty.proc = "loop"
    /\ \E ok \in BOOLEAN :
          LET v1 == editor_scroll_v1(editor_init_dimensions(view, tty.size, ok))
          IN view' = v1 /\ tty' = editor_draw_screen_v1(v1, tty)
    /\ UNCHANGED <<ver, buf, dirty, quit_times_needed, statusmsg, srch, hl,
                   exited, branch, fs, sv, kb>>

NextScroll == TermResize \/ RefreshV3 \/ RefreshV1

SpecScroll == InitScroll /\ [][NextScroll]_vars

(* C22: editor_scroll is idempotent in each variant: a second call right
   after the first leaves rowoff and coloff as the first left them, for every
   cursor, every pair of offsets and every screen size, and no call changes
   cx or cy. *)
C22_ScrollIdempotent ==
    /\ ver = "v03" =>
          /\ editor_scroll(editor_scroll(view)) = editor_scroll(view)
          /\ editor_scroll(view).cx = view.cx /\ editor_scroll(view).cy = view.cy
    /\ ver = "v01" =>
          /\ editor_scroll_v1(editor_scroll_v1(view)) = editor_scroll_v1(view)
          /\ editor_scroll_v1(view).cx = view.cx
          /\ editor_scroll_v1(view).cy = view.cy

(* the screen of v0.3 was drawn and the window had to move down and right *)
C22_Witness ==
    /\ ver = "v03" /\ tty.drawn = <<2, 1>> /\ tty.proc = "loop"
    /\ view.cy = 2 /\ view.rowoff = 1 /\ view.cx = 1 /\ view.coloff = 1

Visible(v) ==
    /\ v.rowoff >= 0 /\ v.coloff >= 0
    /\ v.rowoff <= v.cy /\ v.cy < v.rowoff + v.screenrows
    /\ v.coloff <= v.cx /\ v.cx < v.coloff + v.screencols

(* C28: in v0.3, for screenrows >= 1 and screencols >= 1, after editor_scroll
   rowoff >= 0, coloff >= 0, rowoff <= cy < rowoff + screenrows and
   coloff <= cx < coloff + screencols, and the cursor of the terminal is put
   at (cy - rowoff + 1, cx - coloff + 1), the clamps of editor_draw_screen
   having nothing to do; the second part is stated of the process that has
   drawn the screen and runs on. *)
C28_CursorVisible ==
    /\ (ver = "v03" /\ view.screenrows >= 1 /\ view.screencols >= 1) =>
          Visible(editor_scroll(view))
    /\ (ver = "v03" /\ tty.drawn # <<0, 0>> /\ tty.proc = "loop") =>
          /\ Visible(view)
          /\ tty.cursor = <<view.cy - view.rowoff + 1, view.cx - view.coloff + 1>>

(* drawn on a window of one text row and one column, the cursor two rows
   down and one column right of the start *)
C28_Witness ==
    /\ ver = "v03" /\ tty.drawn = <<1, 1>> /\ tty.cursor = <<1, 1>>
    /\ view.cy = 2 /\ view.cx = 1 /\ view.rowoff = 2 /\ view.coloff = 1

(* C29: in v0.1, after editor_scroll, coloff <= cx < coloff + screencols for
   every reachable cursor, the end of a line longer than the screen is wide
   included. *)
C29_HorizontalScrollV01 ==
    (ver = "v01" /\ tty.drawn # <<0, 0>>) =>
        (view.coloff <= view.cx /\ view.cx < view.coloff + view.screencols)

----------------------------------------------------------------------------
(* State machine of the terminal session, v0.3: from the first draw to the  *)
(* end of the process, with the reads that time out, the reads and writes   *)
(* that fail and the window the user resizes.                               *)

MaxTermKeys == 2

(* attributes a terminal can have before the editor starts *)
TermModes == {"cooked", "cbreak"}

TermStreams == SeqsUpTo({CTRL_Q, ESC, KEY_DOWN, 97}, MaxTermKeys)

disable_raw_mode(t) == [t EXCEPT !.attrs = t.orig]

(* exit(), and the return of main: the handler given to atexit runs *)
exit(t) == [disable_raw_mode(t) EXCEPT !.proc = "exit"]

(* tcsetattr(STDIN_FILENO, TCSAFLUSH, &a); ok: the call succeeded *)
tcsetattr(t, a, ok) == IF ok THEN [t EXCEPT !.attrs = a] ELSE t

(* wok: the xwrite that clears the screen succeeded; sok: the tcsetattr of
   disable_raw_mode succeeds, in die and in the handler of atexit alike *)
die(t, wok, sok) ==
    IF wok THEN [tcsetattr(t, t.orig, sok) EXCEPT !.proc = "exit"]
    ELSE xwrite_failed(t)

InitTerm ==
    /\ ver = "v03"
    /\ LET g == Startup(ver, KeyFile)
       IN /\ buf = g.buf /\ dirty = g.dirty
          /\ quit_times_needed = g.quit_times_needed /\ statusmsg = g.statusmsg
          /\ srch = g.srch /\ hl = g.hl /\ exited = g.exited /\ branch = g.branch
          /\ fs = [target |-> KeyFile, tmp |-> NoFile]
    /\ \E size \in Sizes : \E mode \in TermModes :
          /\ view = ViewAt(ver, 0, 0, 0, 0, size)
          /\ tty = [TtyIdle EXCEPT !.size = size, !.orig = mode, !.proc = "start"]
    /\ sv = SvIdle
    /\ \E t \in TermStreams : kb = [input |-> t, stream |-> t, keys |-> <<>>]

(* the first editor_draw_screen of main *)
TermFirstDraw ==
    /\ ver = "v03" /\ tty.proc = "start"
    /\ \E fail \in 0..3 :
          LET r == editor_draw_screen(view, tty, fail)
          IN /\ view' = r.view
             /\ tty' = IF fail = 0 THEN [r.tty EXCEPT !.proc = "loop"] ELSE r.tty
    /\ UNCHANGED <<ver, buf, dirty, quit_times_needed, statusmsg, srch, hl,
                   exited, branch, fs, sv, kb>>

(* one iteration of the main loop on the next key: the arm of the key, then
   either the way out (the screen cleared, break, return) or the end of the
   loop body *)
TermKey ==
    /\ ver = "v03" /\ tty.proc = "loop" /\ kb.stream # <<>>
    /\ \E ok \in BOOLEAN : \E fail \in 0..3 :
          LET g1 == main_v03(G, Head(kb.stream), TRUE, TRUE, <<>>, view.screenrows)
              r == main_refresh(g1.view, tty, g1.branch # "unbound", ok, fail)
          IN IF g1.exited
             THEN /\ Commit([g1 EXCEPT !.exited = (fail = 0)])
                  /\ tty' = IF fail = 0 THEN exit(tty) ELSE xwrite_failed(tty)
             ELSE /\ Commit([g1 EXCEPT !.view = r.view])
                  /\ tty' = r.tty
    /\ kb' = [kb EXCEPT !.stream = Tail(@), !.keys = Append(@, Head(kb.stream))]
    /\ UNCHANGED <<ver, fs, sv>>

(* read() fails in editor_read_key with an error that is not EAGAIN: die; the
   tcsetattr that put the terminal in raw mode worked, and so does this one *)
TermReadError ==
    /\ ver = "v03" /\ tty.proc = "loop"
    /\ \E wok \in BOOLEAN : tty' = die(tty, wok, TRUE)
    /\ UNCHANGED <<ver, buf, view, dirty, quit_times_needed, statusmsg, srch, hl,
                   exited, branch, fs, sv, kb>>

(* read() returns 0 after the tenth of a second of VTIME: editor_read_key
   goes round its loop and reads again *)
TermTimeout ==
    /\ ver = "v03" /\ tty.proc = "loop"
    /\ tty' = [tty EXCEPT !.tick = 1 - @]
    /\ UNCHANGED <<ver, buf, view, dirty, quit_times_needed, statusmsg, srch, hl,
                   exited, branch, fs, sv, kb>>

NextTerm == TermFirstDraw \/ TermKey \/ TermReadError \/ TermTimeout \/ TermResize

SpecTerm == InitTerm /\ [][NextTerm]_vars

(* the process runs and the terminal times the reads out: the steps of the
   program that wait for no key are taken *)
SpecTermFair == SpecTerm /\ WF_vars(TermFirstDraw) /\ WF_vars(TermTimeout)

(* C23: in v0.3, once enable_raw_mode has succeeded, the attributes saved in
   orig_termios are put back on every way the process ends: the normal quit,
   die() after a failed read, a terminal write that fails inside xwrite. *)
C23_TerminalRestored ==
    tty.proc \in {"exit", "_exit"} => tty.attrs = tty.orig

(* the screen is drawn for another size than the window has *)
Stale == tty.proc = "loop" /\ tty.drawn # DimsOf(tty.size)

(* C30: in v0.3, a read that returns without a byte gives control back to the
   main loop, which asks the size again; so a change of the size of the
   window is eventually followed by a full redraw for the new size, even if
   no key is pressed. *)
C30_ResizeRedraws == Stale ~> ~Stale

----------------------------------------------------------------------------
(* State machine of the start of main, both variants: atexit, then          *)
(* enable_raw_mode, then the buffer, the file and the size of the window.   *)
(* orig_termios is static storage: "zeroed" until tcgetattr fills it.       *)

(* die of v0.1: the write is not checked *)
die_v1(t, sok) == [tcsetattr(t, t.orig, sok) EXCEPT !.proc = "exit"]

(* get_ok: tcgetattr succeeded; set_ok: the tcsetattr to raw mode succeeded;
   wok, sok: as in die *)
enable_raw_mode(t, v, get_ok, set_ok, wok, sok) ==
    LET d(t0) == IF v = "v01" THEN die_v1(t0, sok) ELSE die(t0, wok, sok)
    IN IF ~get_ok THEN d(t)
       ELSE LET t1 == [t EXCEPT !.orig = t.attrs]
            IN IF set_ok THEN [t1 EXCEPT !.attrs = "raw", !.proc = "raw"]
               ELSE d(t1)

ZeroView ==
    [cx |-> 0, cy |-> 0, pref_cx |-> 0, rowoff |-> 0, coloff |-> 0,
     screenrows |-> 0, screencols |-> 0]

InitRaw ==
    /\ ver \in {"v01", "v03"}
    /\ buf = [lines |-> <<>>, len |-> <<>>, count |-> 0]
    /\ view = ZeroView
    /\ dirty = Globals0.dirty /\ quit_times_needed = Globals0.quit_times_needed
    /\ statusmsg = "" /\ srch = Globals0.srch /\ hl = Globals0.hl
    /\ exited = FALSE /\ branch = "none"
    /\ \E f \in ScrollFiles \cup {NoFile} : fs = [target |-> f, tmp |-> NoFile]
    /\ \E size \in Sizes : \E mode \in TermModes :
          tty = [TtyIdle EXCEPT !.attrs = mode, !.orig = "zeroed", !.size = size,
                                !.proc = "enter"]
    /\ sv = SvIdle
    /\ kb = KbIdle

EnableRawMode ==
    /\ tty.proc = "enter"
    /\ \E get_ok \in BOOLEAN : \E set_ok \in BOOLEAN :
       \E wok \in BOOLEAN : \E sok \in BOOLEAN :
          tty' = enable_raw_mode(tty, ver, get_ok, set_ok, wok, sok)
    /\ UNCHANGED <<ver, buf, view, dirty, quit_times_needed, statusmsg, srch, hl,
                   exited, branch, fs, sv, kb>>

(* buffer_init, editor_open, the cursor and the offsets, the size of the
   window, the help message: main up to its first draw *)
MainStart ==
    /\ tty.proc = "raw"
    /\ \E ok \in BOOLEAN :
          Commit([Startup(ver, fs.target) EXCEPT
                    !.view = IF ver = "v01"
                             THEN editor_init_dimensions(ZeroView, tty.size, ok)
                             ELSE editor_update_dimensions(ZeroView, tty.size, ok).view])
    /\ tty' = [tty EXCEPT !.proc = "start"]
    /\ UNCHANGED <<ver, fs, sv, kb>>

NextRaw == EnableRawMode \/ MainStart \/ TermResize

SpecRaw == InitRaw /\ [][NextRaw]_vars

(* C31: in each variant, if tcgetattr fails in enable_raw_mode the process
   ends with a non-zero status and on that path installs on the terminal no
   attributes but ones captured from it: tcsetattr is not called with the
   orig_termios that was never filled. *)
C31_NoForeignAttributes ==
    tty.orig = "zeroed" => (tty.proc \in {"enter", "exit", "_exit"} /\ tty.attrs \in TermModes)

----------------------------------------------------------------------------
(* Properties of every reachable state of the v0.3 loop *)

(* C35: in v0.3 quit_times_needed is always 0 or 1, quit_times_needed = 0
   implies dirty, and the loop is left with dirty = TRUE only from a state
   with quit_times_needed = 0, that is with the unsaved-changes warning set
   by a refused Ctrl-Q and no bound key other than Ctrl-Q dispatched since. *)
C35_ExitWhileDirtyGuard ==
    /\ [](ver = "v03" =>
            /\ quit_times_needed \in {0, 1}
            /\ quit_times_needed = 0 =>
                  (dirty /\ statusmsg = "Unsaved changes" /\ branch # "bound"))
    /\ [][(ver = "v03" /\ ~exited /\ exited' /\ dirty') =>
             (quit_times_needed = 0 /\ branch # "bound")]_vars

(* the loop was left with unsaved changes in a buffer of two lines, the
   counter at 0 *)
C35_Witness ==
    /\ ver = "v03" /\ exited /\ dirty /\ branch = "quit"
    /\ quit_times_needed = 0 /\ buf.count = 2

(* C36: in v0.3, in every reachable state with a highlight active
   (hl_len > 0): 0 <= hl_row < count, hl_col >= 0, hl_col + hl_len <=
   len(hl_row), the bytes of line hl_row in [hl_col, hl_col + hl_len) are
   last_query, and the cursor is at (hl_row, hl_col). *)
C36_HighlightConsistent ==
    (ver = "v03" /\ hl.len > 0) =>
        /\ 0 <= hl.row /\ hl.row < buf.count
        /\ hl.col >= 0 /\ hl.col + hl.len <= buf.len[hl.row + 1]
        /\ Bytes(buf.lines[hl.row + 1], hl.col, hl.len) = srch.last_query
        /\ view.cy = hl.row /\ view.cx = hl.col

(* a highlight is active on the second line after a save *)
C36_Witness ==
    /\ ver = "v03" /\ hl.len = 1 /\ hl.row = 1 /\ statusmsg = "Saved"

(* C38: in v0.3, in every reachable state pref_cx >= 0 and either cx =
   pref_cx, or cx = len(cy) and cx < pref_cx; so that Up on the first row
   leaves the cursor where it is. *)
C38_PreferredColumnInvariant ==
    ver = "v03" =>
        /\ view.pref_cx >= 0
        /\ \/ view.cx = view.pref_cx
           \/ (view.cx = buf.len[view.cy + 1] /\ view.cx < view.pref_cx)
        /\ view.cy = 0 =>
              LET g == editor_move_cursor(G, KEY_UP)
              IN g.view.cx = view.cx /\ g.view.cy = view.cy

(* on the first row, at the end of a line shorter than the preferred column *)
C38_Witness ==
    /\ ver = "v03" /\ view.cy = 0 /\ view.pref_cx = 2 /\ view.cx = 1
    /\ buf.len[1] = 1 /\ branch = "bound"

(* what the inner loop of editor_find_next reads from row r and start column
   c on: <<row, offset>> for every line whose lines[] and len[] it reads, with
   the offset at which strstr starts in it (0 for an empty line, which is
   skipped).  A row below 0 would be read as it is. *)
RECURSIVE ScanReads(_, _, _, _)
ScanReads(b, q, r, c) ==
    IF r >= b.count THEN {}
    ELSE IF r < 0 THEN {<<r, c>>}
    ELSE IF b.len[r + 1] = 0 THEN {<<r, 0>>} \cup ScanReads(b, q, r + 1, 0)
    ELSE LET off == IF c < b.len[r + 1] THEN c ELSE b.len[r + 1]
         IN {<<r, off>>} \cup
            (IF off >= 0 /\ strstr(b.lines[r + 1], off, q) >= 0 THEN {}
             ELSE ScanReads(b, q, r + 1, 0))

(* the reads of the two rounds of editor_find_next *)
FindReads(g, from_current) ==
    IF g.srch.last_query = <<>> THEN {}
    ELSE LET r == IF from_current THEN g.view.cy ELSE g.srch.last_match_row
             c == IF from_current THEN g.view.cx ELSE g.srch.last_match_col + 1
             first == ScanReads(g.buf, g.srch.last_query, r, c)
         IN IF \E rd \in first : rd[1] < 0 \/ rd[2] < 0 THEN first
            ELSE IF FindMatch_nowrap(g, from_current)[1] >= 0 THEN first
            ELSE first \cup ScanReads(g.buf, g.srch.last_query, 0, 0)

(* C37: in v0.3, in every reachable state, Ctrl-N (editor_find_next(false))
   reads only lines with index in [0, count) and starts the scan of each line
   at an offset in [0, len(row)], also when edits after the last search
   removed line last_match_row or made it shorter than last_match_col + 1;
   and when it reports no match it changes nothing but the status message
   and the quit counter. *)
C37_StaleSearchPosition ==
    ver = "v03" =>
        /\ \A rd \in FindReads(G, FALSE) :
              /\ 0 <= rd[1] /\ rd[1] < buf.count
              /\ 0 <= rd[2] /\ rd[2] <= buf.len[rd[1] + 1]
        /\ ~editor_find_next(G, FALSE).found =>
              [main_v03(G, CTRL_N, FALSE, FALSE, <<>>, 4) EXCEPT
                  !.statusmsg = statusmsg, !.quit_times_needed = quit_times_needed,
                  !.branch = branch] = G

(* the line of the last match is gone: it was joined to the one above *)
C37_Witness ==
    /\ ver = "v03" /\ srch.last_query # <<>>
    /\ srch.last_match_row >= buf.count /\ dirty

----------------------------------------------------------------------------
(* What editor_draw_screen of v0.3 writes: the text rows and the status     *)
(* bar.  The output is kept as the list of the xwrite calls, each with the  *)
(* bytes it was given.                                                      *)

SPACE == 32

(* "\x1b[7m" and "\x1b[m" *)
INV_ON == <<ESC, 91, 55, 109>>

INV_OFF == <<ESC, 91, 109>>

(* "0.3-linux-fixed" *)
EDITOR_VERSION == <<48, 46, 51, 45, 108, 105, 110, 117, 120, 45, 102, 105, 120, 101, 100>>

(* "(modified)" *)
MODIFIED == <<40, 109, 111, 100, 105, 102, 105, 101, 100, 41>>

(* %d of a number >= 0 *)
RECURSIVE Dec(_)
Dec(n) == IF n < 10 THEN <<48 + n>> ELSE Dec(n \div 10) \o <<48 + (n % 10)>>

(* %3d: padded with spaces on the left to three characters *)
RECURSIVE PadLeft(_, _)
PadLeft(s, w) == IF Len(s) >= w THEN s ELSE PadLeft(<<SPACE>> \o s, w)

Spaces(n) == [i \in 1..n |-> SPACE]

percent_through(g) ==
    IF g.buf.count <= 1 THEN 100
    ELSE LET p == ((g.view.cy + 1) * 100) \div g.buf.count
         IN IF p < 1 THEN 1 ELSE IF p > 100 THEN 100 ELSE p

(* draw_line_with_highlight that writes the three parts whatever their length *)
draw_line_with_highlight_all(g, filerow) ==
    LET left == g.view.coloff
        maxw == g.view.screencols
        mem == g.buf.lines[filerow + 1]
        len0 == g.buf.len[filerow + 1] - left
        len1 == IF len0 < 0 THEN 0 ELSE len0
        len == IF len1 > maxw THEN maxw ELSE len1
    IN IF len = 0 THEN <<>>
       ELSE IF filerow = g.hl.row /\ g.hl.len > 0 /\ g.hl.col >= 0
       THEN LET hs0 == g.hl.col - left
                he0 == g.hl.col + g.hl.len - left
            IN IF he0 <= 0 \/ hs0 >= maxw THEN <<Bytes(mem, left, len)>>
               ELSE LET hstart == IF hs0 < 0 THEN 0 ELSE hs0
                        hend == IF he0 > len THEN len ELSE he0
                    IN <<Bytes(mem, left, hstart)>>
                       \o <<INV_ON, Bytes(mem, left + hstart, hend - hstart), INV_OFF>>
                       \o <<Bytes(mem, left + hend, len - hend)>>
       ELSE <<Bytes(mem, left, len)>>

(* the xwrite calls of draw_line_with_highlight for row filerow *)
draw_line_with_highlight(g, filerow) ==
    LET left == g.view.coloff
        maxw == g.view.screencols
        mem == g.buf.lines[filerow + 1]
        len0 == g.buf.len[filerow + 1] - left
        len1 == IF len0 < 0 THEN 0 ELSE len0
        len == IF len1 > maxw THEN maxw ELSE len1
    IN IF len = 0 THEN <<>>
       ELSE IF filerow = g.hl.row /\ g.hl.len > 0 /\ g.hl.col >= 0
       THEN LET hs0 == g.hl.col - left
                he0 == g.hl.col + g.hl.len - left
            IN IF he0 <= 0 \/ hs0 >= maxw THEN <<Bytes(mem, left, len)>>
               ELSE LET hstart == IF hs0 < 0 THEN 0 ELSE hs0
                        hend == IF he0 > len THEN len ELSE he0
                    IN (IF hstart > 0 THEN <<Bytes(mem, left, hstart)>> ELSE <<>>)
                       \o <<INV_ON, Bytes(mem, left + hstart, hend - hstart), INV_OFF>>
                       \o (IF hend < len THEN <<Bytes(mem, left + hend, len - hend)>>
                           ELSE <<>>)
       ELSE <<Bytes(mem, left, len)>>

(* the status bar of editor_draw_screen for the file name given: the xwrite
   calls from the inverse-video on to the inverse-video off *)
status_bar(g, name) ==
    LET left == <<SPACE>> \o SubSeq(name, 1, Min(Len(name), 40)) \o <<SPACE>>
                \o (IF g.dirty THEN MODIFIED ELSE <<>>)
        right == <<SPACE>> \o Dec(g.view.cy + 1) \o <<58>> \o Dec(g.view.cx + 1)
                 \o <<SPACE>> \o PadLeft(Dec(percent_through(g)), 3) \o <<37, SPACE, 118>>
                 \o EDITOR_VERSION \o <<SPACE>>
        len == Min(Len(left), g.view.screencols)
        pad == IF len < g.view.screencols - Len(right)
               THEN g.view.screencols - Len(right) - len ELSE 0
        right_len == Min(Len(right), g.view.screencols)
    IN <<INV_ON, SubSeq(left, 1, len)>>
       \o [i \in 1..pad |-> <<SPACE>>]
       \o <<SubSeq(right, 1, right_len), INV_OFF>>

(* the rows of the text area, one list of xwrite calls a row *)
draw_rows(g) ==
    [y \in 1..g.view.screenrows |->
        IF g.view.rowoff + y - 1 < g.buf.count
        THEN draw_line_with_highlight(g, g.view.rowoff + y - 1)
        ELSE <<>>]

----------------------------------------------------------------------------
(* State machine of the drawing, v0.3: every small document, cursor,        *)
(* highlight as a find leaves it, pair of offsets, file name and window;    *)
(* the window is resized and the screen drawn.  Here tty carries out, what  *)
(* the last draw wrote, and fs carries name, the file name.                 *)

MaxDrawFile == 3
MaxName == 41

DrawFiles == {File(d) : d \in SeqsUpTo(SearchBytes \cup {LF}, MaxDrawFile)}

(* file names of 1 byte, of the 12 bytes of "untitled.txt", and of MaxName *)
Names == {[i \in 1..n |-> 102] : n \in {1, 12, MaxName}}

DrawSizes == {<<3, 1>>, <<3, 40>>, <<3, 80>>}

NoOutput == [rows |-> <<>>, bar |-> <<>>]

(* the highlights a find can have left with the cursor at (cy, cx) *)
Highlights(b, cy, cx) ==
    {NoHighlight} \cup
    {[row |-> cy, col |-> cx, len |-> n] : n \in 1..(b.len[cy + 1] - cx)}

InitDraw ==
    /\ ver = "v03"
    /\ \E f \in DrawFiles : \E name \in Names :
          LET g == Startup(ver, f)
          IN /\ buf = g.buf
             /\ quit_times_needed = g.quit_times_needed /\ statusmsg = g.statusmsg
             /\ exited = g.exited /\ branch = g.branch
             /\ fs = [target |-> f, tmp |-> NoFile, name |-> name]
             /\ dirty \in BOOLEAN
             /\ \E cy \in 0..(g.buf.count - 1) : \E cx \in 0..g.buf.len[cy + 1] :
                \E ro \in RowOffs : \E co \in ColOffs(ver) : \E size \in DrawSizes :
                \E h \in Highlights(g.buf, cy, cx) :
                    /\ view = ViewAt(ver, cx, cy, ro, co, size)
                    /\ hl = h
                    /\ srch = IF h.len > 0
                              THEN [last_query |-> Bytes(g.buf.lines[cy + 1], cx, h.len),
                                    last_match_row |-> cy, last_match_col |-> cx]
                              ELSE g.srch
                    /\ tty = [attrs |-> "raw", orig |-> "cooked", size |-> size,
                              drawn |-> <<0, 0>>, cursor |-> <<0, 0>>, tick |-> 0,
                              proc |-> "loop", out |-> NoOutput]
    /\ sv = SvIdle
    /\ kb = KbIdle

DrawResize ==
    /\ tty.proc = "loop"
    /\ \E size \in DrawSizes \ {tty.size} : tty' = [tty EXCEPT !.size = size]
    /\ UNCHANGED <<ver, buf, view, dirty, quit_times_needed, statusmsg, srch, hl,
                   exited, branch, fs, sv, kb>>

(* the size asked again, then editor_draw_screen with every write succeeding *)
DrawScreen ==
    /\ ver = "v03" /\ tty.proc = "loop"
    /\ LET d == editor_update_dimensions(view, tty.size, TRUE)
           r == editor_draw_screen(d.view, tty, 0)
           g == [G EXCEPT !.view = r.view]
       IN /\ view' = r.view
          /\ tty' = [r.tty EXCEPT !.out = [rows |-> draw_rows(g),
                                           bar |-> status_bar(g, fs.name)]]
    /\ UNCHANGED <<ver, buf, dirty, quit_times_needed, statusmsg, srch, hl,
                   exited, branch, fs, sv, kb>>

NextDraw == DrawResize \/ DrawScreen

SpecDraw == InitDraw /\ [][NextDraw]_vars

(* the bytes of a list of writes, one after the other *)
RECURSIVE Flat(_)
Flat(ws) == IF ws = <<>> THEN <<>> ELSE Head(ws) \o Flat(Tail(ws))

(* the writes that are text, in order *)
TextOf(ws) == SelectSeq(ws, LAMBDA w : w # INV_ON /\ w # INV_OFF)

(* C32: in v0.3, for every screencols >= 1, file name (shown up to 40 bytes),
   dirty state and cursor position, the status bar editor_draw_screen draws
   has exactly screencols characters between the inverse-video on and off. *)
C32_StatusBarWidth ==
    (ver = "v03" /\ tty.out.bar # <<>>) =>
        Len(Flat(TextOf(tty.out.bar))) = tty.drawn[2]

Max(a, b) == IF a > b THEN a ELSE b

(* what the row has to look like: ws the writes of draw_line_with_highlight
   for row filerow of g *)
RowAsClaimed(g, filerow, ws) ==
    LET co == g.view.coloff
        L == g.buf.len[filerow + 1]
        n == Max(0, Min(L - co, g.view.screencols))
        lo == Max(g.hl.col, co)
        hi == Min(g.hl.col + g.hl.len, co + n)
        lit == filerow = g.hl.row /\ g.hl.len > 0 /\ lo < hi
        ons == {i \in 1..Len(ws) : ws[i] = INV_ON}
    IN /\ Flat(TextOf(ws)) = Bytes(g.buf.lines[filerow + 1], co, n)
       /\ Len(TextOf(ws)) <= 3
       /\ \A i \in 1..Len(ws) : ws[i] # <<>>
       /\ IF lit
          THEN /\ Cardinality(ons) = 1
               /\ \A i \in ons :
                     /\ i + 2 <= Len(ws) /\ ws[i + 2] = INV_OFF
                     /\ ws[i + 1] = Bytes(g.buf.lines[filerow + 1], lo, hi - lo)
                     /\ Len(Flat(SubSeq(ws, 1, i - 1))) = lo - co
          ELSE \A i \in 1..Len(ws) : ws[i] # INV_ON /\ ws[i] # INV_OFF

(* C33: in v0.3, for every line, coloff, screencols and highlight span inside
   the line, the text bytes draw_line_with_highlight emits, control sequences
   left out, are the bytes of the line in [coloff, coloff + screencols) in
   order, in at most three segments; the inverse-video segment covers exactly
   the part of [hl_col, hl_col + hl_len) inside the window; no zero-length
   segment and no empty inverse-video pair is emitted. *)
C33_HighlightedRow ==
    ver = "v03" =>
        \A filerow \in 0..(buf.count - 1) :
            RowAsClaimed(G, filerow, draw_line_with_highlight(G, filerow))

(* a row drawn in three segments, the middle one in inverse video *)
C33_Witness ==
    /\ ver = "v03" /\ Len(tty.out.rows) = 1
    /\ tty.out.rows[1] = <<<<97>>, INV_ON, <<98>>, INV_OFF, <<97>>>>
    /\ hl = [row |-> 0, col |-> 1, len |-> 1]

----------------------------------------------------------------------------
(* The search prompt of v0.3, key by key: editor_find calls editor_prompt,   *)
(* which loops on editor_read_key until the input is cancelled or confirmed. *)
(* sv holds the position: [pc |-> "prompt", out |-> the bytes typed so far]  *)
(* while editor_prompt waits for a key, SvIdle while the main loop does.     *)

QUERY_SIZE == 256   \* char query[256] of editor_find, outlen of the prompt

(* isprint(c) for the int c that editor_read_key returned: defined for the
   values of unsigned char; for a key code above 255 (arrows, PageUp,
   PageDown) the C library gives no meaning to the call, and outcome is what
   the build happens to answer *)
isprint_int(c, outcome) == IF c \in 0..255 THEN isprint(c) ELSE outcome

(* one pass of the while loop of editor_prompt after editor_read_key gave c:
   [returned, ok, out] *)
editor_prompt_key(out, c, outcome) ==
    LET n == Len(out)
    IN IF c = ESC THEN [returned |-> TRUE, ok |-> FALSE, out |-> out]
       ELSE IF c = CR \/ c = LF THEN
            [returned |-> n > 0, ok |-> n > 0, out |-> out]
       ELSE IF c = DEL THEN
            [returned |-> FALSE, ok |-> FALSE,
             out |-> IF n > 0 THEN SubSeq(out, 1, n - 1) ELSE out]
       ELSE IF isprint_int(c, outcome) THEN
            [returned |-> FALSE, ok |-> FALSE,
             out |-> IF n + 1 < QUERY_SIZE THEN Append(out, c % 256) ELSE out]
       ELSE [returned |-> FALSE, ok |-> FALSE, out |-> out]

MaxPromptKeys == 4

PromptFile == File(<<97, LF, 98, 97>>)

(* Ctrl-F, Escape, Enter, Backspace, 'a', Up, Ctrl-A *)
PromptKeys == {CTRL_F, ESC, CR, DEL, 97, KEY_UP, CTRL_KEY(97)}

(* the loop starts on the file, or has already found "a" in it *)
InitPrompt ==
    /\ ver = "v03"
    /\ \E found \in BOOLEAN :
          LET g0 == Startup(ver, PromptFile)
              g == IF found THEN [editor_find(g0, FALSE, <<97>>) EXCEPT !.branch = "bound"]
                   ELSE g0
          IN /\ buf = g.buf /\ view = g.view /\ dirty = g.dirty
             /\ quit_times_needed = g.quit_times_needed /\ statusmsg = g.statusmsg
             /\ srch = g.srch /\ hl = g.hl /\ exited = g.exited /\ branch = g.branch
    /\ fs = [target |-> PromptFile, tmp |-> NoFile]
    /\ sv = SvIdle
    /\ tty = TtyIdle
    /\ \E t \in SeqsUpTo(PromptKeys, MaxPromptKeys) :
          kb = [input |-> t, stream |-> t, keys |-> <<>>]

(* the main loop reads Ctrl-F: editor_find calls editor_prompt, which empties
   the input, shows the prompt and waits for a key *)
PromptOpen ==
    /\ ver = "v03" /\ ~exited /\ sv = SvIdle
    /\ kb.stream # <<>> /\ Head(kb.stream) = CTRL_F
    /\ sv' = [pc |-> "prompt", out |-> <<>>]
    /\ statusmsg' = "Prompt"
    /\ branch' = "bound"
    /\ kb' = [kb EXCEPT !.stream = Tail(@), !.keys = Append(@, CTRL_F)]
    /\ UNCHANGED <<ver, buf, view, dirty, quit_times_needed, srch, hl, exited, fs, tty>>

(* editor_prompt reads a key; when it returns, editor_find and the Ctrl-F arm
   of main run to their end *)
PromptKey ==
    /\ ver = "v03" /\ ~exited /\ sv.pc = "prompt" /\ kb.stream # <<>>
    /\ \E outcome \in BOOLEAN :
          LET c == Head(kb.stream)
              r == editor_prompt_key(sv.out, c, outcome)
          IN IF r.returned
             THEN /\ Commit([editor_find(G, ~r.ok, r.out) EXCEPT !.quit_times_needed = 1])
                  /\ sv' = SvIdle
             ELSE /\ sv' = [sv EXCEPT !.out = r.out]
                  /\ statusmsg' = "Prompt"
                  /\ UNCHANGED <<buf, view, dirty, quit_times_needed, srch, hl, exited,
                                 branch>>
    /\ kb' = [kb EXCEPT !.stream = Tail(@), !.keys = Append(@, Head(kb.stream))]
    /\ UNCHANGED <<ver, fs, tty>>

(* the main loop reads any other key *)
PromptMainKey ==
    /\ ver = "v03" /\ ~exited /\ sv = SvIdle
    /\ kb.stream # <<>> /\ Head(kb.stream) # CTRL_F
    /\ Commit(main_v03(G, Head(kb.stream), TRUE, TRUE, <<>>,
                       CHOOSE r \in ScreenRows : TRUE))
    /\ kb' = [kb EXCEPT !.stream = Tail(@), !.keys = Append(@, Head(kb.stream))]
    /\ UNCHANGED <<ver, fs, sv, tty>>

NextPrompt == PromptOpen \/ PromptKey \/ PromptMainKey

SpecPrompt == InitPrompt /\ [][NextPrompt]_vars

(* what a key read by the open prompt does, the keys outside K left aside *)
PromptProtocol(K) ==
    (sv.pc = "prompt" /\ kb'.keys # kb.keys /\ Head(kb.stream) \in K) =>
        LET c == Head(kb.stream)
            enter == c = CR \/ c = LF
            cancelled == c = ESC
            confirmed == enter /\ sv.out # <<>>
        IN /\ sv' = SvIdle <=> (cancelled \/ confirmed)
           /\ (enter /\ sv.out = <<>>) => sv' = sv
           /\ (~enter /\ ~cancelled /\ ~isprint(c) /\ c # DEL) => sv' = sv
           /\ c = DEL => /\ sv'.pc = "prompt"
                         /\ sv'.out = SubSeq(sv.out, 1, Len(sv.out) - 1)
           /\ cancelled => /\ hl' = NoHighlight
                           /\ srch' = srch /\ buf' = buf /\ dirty' = dirty
                           /\ view'.cx = view.cx /\ view'.cy = view.cy
           /\ confirmed => srch'.last_query = sv.out

(* C34: in v0.3 the search prompt returns only on the Escape key (cancelled)
   or on Enter with a non-empty input (confirmed); Enter on an empty input and
   every key that is neither printable nor Backspace leave the prompt open and
   the input unchanged; Backspace removes the last typed byte; on cancel the
   highlight is cleared while last_query, the last-match position, the buffer,
   the cursor and the dirty flag are unchanged. *)
C34_SearchPromptProtocol == [][PromptProtocol(PromptKeys)]_vars

====
